---------------------------- MODULE Spec2Model ----------------------------
(***************************************************************************)
(* Correlation / join engine of modular-agent-std:                          *)
(*   - Map and Collect (src/src/array.rs), specification Spec               *)
(*   - ZipToArray (src/src/array.rs), ZipToObject (src/src/data.rs) and     *)
(*     Sync (src/src/sequence.rs), specifications SpecJoin, SpecConfig and  *)
(*     SpecLife                                                             *)
(* and utilities of the same crate:                                         *)
(*   - get_nested_value / set_nested_value (src/src/data.rs), SpecNested    *)
(*   - String Length Split (src/src/string.rs), SpecSplit, SpecSplitUtf8    *)
(*   - the Input agents (src/src/input.rs), SpecInput                       *)
(*   - the port count of the joins and of Sequence, SpecPorts               *)
(*   - Zip2 / Zip3 / Zip4 (src/src/stream.rs), SpecZip                      *)
(*   - Throttle Time, Delay and Interval Timer (src/src/time.rs),           *)
(*     SpecThrottle, SpecThrottleLive, SpecDelay, SpecInterval              *)
(* Option<T> is modelled as a sequence of length <= 1: None is << >> and    *)
(* Some(x) is <<x>>.                                                        *)
(***************************************************************************)
EXTENDS Integers, Sequences, FiniteSets, Bags, TLC

VARIABLES
    \* ---- Map -> Collect pipeline ----
    collect,     \* CollectAgent fields: current_ctx_id, input_values, expected_size, received_count
    chan,        \* bag of messages emitted by Map and not yet delivered to Collect
    emitted,     \* outputs of the most recent CollectAgent::process call
    result,      \* "ok" | "InvalidValue": result of the most recent process call
    \* history variables of the pipeline (never read by the agents)
    mapped,      \* set of inputs MapAgent::process has been called with
    map_in,      \* Option: input of the most recent MapAgent::process call
    map_out,     \* outputs of the most recent MapAgent::process call, in emission order
    last_msg,    \* Option: message handled by the most recent CollectAgent::process call
    prev,        \* CollectAgent fields before the most recent process call
    slot_ctx,    \* per buffer slot: Option context of the arrival stored there
    prov,        \* contexts of the arrivals whose values form the most recent emitted array
    blk_msgs,    \* set of arrivals since the buffer was last initialised
    blk_n,       \* number of arrivals since the buffer was last initialised
    blk_out,     \* outputs emitted since the buffer was last initialised
    \* ---- ZipToArray / ZipToObject / Sync ----
    configs,     \* data.spec.configs of the join agent: option name -> Option value
    join,        \* agent fields: kind, n, use_ctx, ttl_sec, capacity, keys, output_pins,
                 \*   queues, ctx_buffers
    now,         \* clock of the cache, in seconds
    jemitted,    \* outputs of the most recent call on the join agent
    jresult,     \* "ok" | "InvalidValue": result of the most recent call
    \* history variables of the join (never read by the agent)
    jlast,       \* the most recent call: op, ctx, pin (number of the port addressed, 0 if none), value
    jpin,        \* the pin name the most recent process call was given
    jsame,       \* the most recent call left the agent's fields as they were
    jprev,       \* before the most recent call: cache keys, anything pending, key in lost,
                 \*   key in done
    arrivals,    \* port -> number of values received so far; the k-th value on port i is Token(i, k)
    got,         \* context key -> port -> Option value received and not yet joined or lost
    expect,      \* Option: values the context-correlated join owes for the most recent arrival
    lost,        \* context keys whose entry expired and that had no arrival since
    evicted_vals,\* values held by entries that expired or were evicted
    done,        \* context keys whose join completed and that had no arrival since
    joined_vals, \* values output by the context-correlated join before the most recent call
    rcv,         \* port -> values received since the last reset, in arrival order
    outs,        \* outputs emitted since the last reset, one element per emitting call
    stop_mark,   \* port -> number of values received before the most recent stop
    inputs,      \* data.spec.inputs: the declared input ports
    given,       \* history: the configs as the host set them, option name -> Option value
    changes,     \* history: number of configs_changed calls so far
    cfg_mark,    \* port -> number of values received before the most recent change of n
    \* ---- utilities ----
    nested,      \* a call of set_nested_value followed by get_nested_value: op, root, keys,
                 \*   value, after (the root after the call), found (Option: what get returned)
    split,       \* a call of StringLengthSplitAgent::process: pc, value (the input), n,
                 \*   overlap, start, out, result, emitted
    input,       \* an Input agent: kind, status, configs (the value configured), emitted
                 \*   (outputs of the most recent call), last (the most recent call) and
                 \*   the history field configured (the value the host set last)
    ports,       \* port count of a ZipToArray, ZipToObject, Sync or Sequence agent: its
                 \*   kind, the configured n (i64), the count update_spec computes (usize)
                 \*   and how update_spec ended
    zip,         \* a Zip2, Zip3 or Zip4 agent: the fields of its ZipAgent (n, keys, input_value,
                 \*   current_id), the output of the most recent call, and the history fields
                 \*   slot_ctx (context id each slot was filled under) and cleared
    throttle,    \* a Throttle Time agent and its timer tasks: timer_handle, waiting_data,
                 \*   max_num_data, the state of each spawned task, the position of the process
                 \*   call in progress, and the history fields arrivals, emitted, dropped, stopped
    delay,       \* a Delay agent: num_waiting_data, the max_num_data configured, the position
                 \*   of the process call in progress, and the history fields arrivals, emitted, last
    interval     \* an Interval Timer agent and its timer tasks: timer_handle, interval_ms,
                 \*   status, the state of each spawned task, the tasks abort was called on, the
                 \*   position of the call in progress, and the history fields emitted and late

collectVars == <<collect, chan, emitted, result, mapped, map_in, map_out,
                 last_msg, prev, slot_ctx, prov, blk_msgs, blk_n, blk_out>>

joinVars == <<configs, join, now, jemitted, jresult, jlast, jpin, jsame, jprev, arrivals,
              got, expect, lost, evicted_vals, done, joined_vals, rcv, outs, stop_mark,
              inputs, given, changes, cfg_mark>>

utilVars == <<nested, split, input, ports, zip, throttle, delay, interval>>

\* the utility variables other than one of them
butNested == <<split, input, ports, zip, throttle, delay, interval>>
butSplit == <<nested, input, ports, zip, throttle, delay, interval>>
butInput == <<nested, split, ports, zip, throttle, delay, interval>>
butPorts == <<nested, split, input, zip, throttle, delay, interval>>
butZip == <<nested, split, input, ports, throttle, delay, interval>>
butThrottle == <<nested, split, input, ports, zip, delay, interval>>
butDelay == <<nested, split, input, ports, zip, throttle, interval>>
butInterval == <<nested, split, input, ports, zip, throttle, delay>>

vars == <<collectVars, joinVars, utilVars>>

-----------------------------------------------------------------------------
\* Bounds of the model
MaxLen == 2        \* longest array given to Map
MaxArrivals == 4   \* number of values the join agent receives in one behaviour
MaxTime == 2       \* seconds the cache clock runs
MaxBlock == 3      \* framed arrivals Collect takes into one buffer
MaxChanges == 1    \* configs_changed calls in one behaviour

-----------------------------------------------------------------------------
\* Values (AgentValue)
None == << >>
Some(x) == <<x>>

Str(s) == [t |-> "str", v |-> <<s>>]
Arr(items) == [t |-> "arr", v |-> items]
Unit == [t |-> "unit", v |-> << >>]
IsArray(val) == val.t = "arr"

\* Map and Collect never inspect a value: an item names the producer run it
\* comes from and its position in that run's array.
Item(tag, k) == Str(<<tag, k>>)

-----------------------------------------------------------------------------
\* AgentContext: a run id and a stack of map frames <<index, total>>
Ctx(id, frames) == [id |-> id, frames |-> frames]

push_map_frame(ctx, i, n) == [ctx EXCEPT !.frames = Append(@, <<i, n>>)]

\* mutant: a context without a frame counts as a fan-out of one
current_map_frame_Default(ctx) ==
    IF ctx.frames = << >> THEN Some(<<0, 1>>) ELSE Some(ctx.frames[Len(ctx.frames)])

current_map_frame(ctx) ==
    IF ctx.frames = << >> THEN None ELSE Some(ctx.frames[Len(ctx.frames)])

\* mutant: every frame is popped
pop_map_frame_All(ctx) == [ctx EXCEPT !.frames = << >>]

pop_map_frame(ctx) == [ctx EXCEPT !.frames = SubSeq(@, 1, Len(@) - 1)]

\* Contexts under which the producer hands values to Map, each at most once:
\* the two items of an enclosing Map over two elements (one run id, one frame
\* pushed), and a run of its own.
SourceCtxs ==
    {Ctx(1, << <<0, 2>> >>), Ctx(1, << <<1, 2>> >>), Ctx(2, << >>)}

\* the alphabet of the values handed to Map under ctx
TagOf(ctx) ==
    IF ctx.id = 2 THEN "c" ELSE IF ctx.frames[1][1] = 0 THEN "a" ELSE "b"

\* Inputs given to Map under ctx: arrays of 0..MaxLen items, and a non-array value
MapInputs(ctx) ==
    {Arr([k \in 1..m |-> Item(TagOf(ctx), k)]) : m \in 0..MaxLen}
        \cup {Item(TagOf(ctx), 0)}

Msg(ctx, value) == [ctx |-> ctx, value |-> value]

-----------------------------------------------------------------------------
\* mutant: the frames count the items from 1
MapOutputs_OneBased(ctx, value) ==
    IF IsArray(value)
    THEN [k \in 1..Len(value.v) |->
             Msg(push_map_frame(ctx, k, Len(value.v)), value.v[k])]
    ELSE << Msg(push_map_frame(ctx, 0, 1), value) >>

\* mutant: the items are emitted from the last to the first
MapOutputs_Reversed(ctx, value) ==
    IF IsArray(value)
    THEN [k \in 1..Len(value.v) |->
             Msg(push_map_frame(ctx, Len(value.v) - k, Len(value.v)),
                 value.v[Len(value.v) - k + 1])]
    ELSE << Msg(push_map_frame(ctx, 0, 1), value) >>

\* MapAgent::process: the messages emitted for one input, in emission order
MapOutputs(ctx, value) ==
    IF IsArray(value)
    THEN [k \in 1..Len(value.v) |->
             Msg(push_map_frame(ctx, k - 1, Len(value.v)), value.v[k])]
    ELSE << Msg(push_map_frame(ctx, 0, 1), value) >>

Range(s) == {s[k] : k \in DOMAIN s}

SeqToBag(s) ==
    [m \in Range(s) |-> Cardinality({k \in DOMAIN s : s[k] = m})]

MapProcess(ctx, value) ==
    /\ \A m \in mapped : m.ctx # ctx
    /\ chan' = chan (+) SeqToBag(MapOutputs(ctx, value))
    /\ mapped' = mapped \cup {Msg(ctx, value)}
    /\ map_in' = Some(Msg(ctx, value))
    /\ map_out' = MapOutputs(ctx, value)
    /\ UNCHANGED <<collect, emitted, result, last_msg, prev, slot_ctx, prov,
                   blk_msgs, blk_n, blk_out>>
    /\ UNCHANGED <<joinVars, utilVars>>

-----------------------------------------------------------------------------
\* CollectAgent
CollectIdle ==
    [current_ctx_id |-> None, input_values |-> << >>,
     expected_size |-> 0, received_count |-> 0]

\* CollectAgent::reset_state
reset_state(c) == CollectIdle

\* CollectAgent::drain_buffer_to_vector: missing values become Unit
drain_buffer_to_vector(buf) ==
    [k \in 1..Len(buf) |-> IF buf[k] = None THEN Unit ELSE buf[k][1]]

\* context switch: another context id arrives before the collection completed
CtxSwitched(c, ctx) ==
    c.current_ctx_id # None /\ c.current_ctx_id[1] # ctx.id

\* mutant: the buffer of another context id is kept
AfterSwitch_Keep(c, ctx) == c

AfterSwitch(c, ctx) == IF CtxSwitched(c, ctx) THEN reset_state(c) ELSE c

\* initialise the buffer when the first item of a context arrives
AfterInit(c, ctx, n) ==
    IF c.input_values = << >>
    THEN [current_ctx_id |-> Some(ctx.id),
          input_values |-> [k \in 1..n |-> None],
          expected_size |-> n,
          received_count |-> 0]
    ELSE c

\* mutant: a filled slot keeps its first value
AfterStore_FirstWins(c, idx, value) ==
    [c EXCEPT !.received_count =
                  IF c.input_values[idx + 1] # None THEN @ ELSE @ + 1,
              !.input_values[idx + 1] = IF @ # None THEN @ ELSE Some(value)]

\* store the value at idx (0-based); a filled slot is overwritten, not counted
AfterStore(c, idx, value) ==
    [c EXCEPT !.received_count =
                  IF c.input_values[idx + 1] # None THEN @ ELSE @ + 1,
              !.input_values[idx + 1] = Some(value)]

CollectProcess(m) ==
    LET fr == current_map_frame(m.ctx) IN
    /\ last_msg' = Some(m)
    /\ prev' = collect
    /\ IF fr = None
       THEN \* not within a map: the value is passed through as-is
            /\ emitted' = << Msg(m.ctx, m.value) >>
            /\ result' = "ok"
            /\ UNCHANGED <<collect, slot_ctx, prov, blk_msgs, blk_n, blk_out>>
       ELSE LET idx == fr[1][1]
                n == fr[1][2]
                c1 == AfterSwitch(collect, m.ctx)
                fresh == c1.input_values = << >>
                c2 == AfterInit(c1, m.ctx, n)
                sc2 == IF fresh THEN [k \in 1..n |-> None] ELSE slot_ctx
                bm == IF fresh THEN {m} ELSE blk_msgs \cup {m}
                bn == IF fresh THEN 1 ELSE blk_n + 1
                bo == IF fresh THEN << >> ELSE blk_out
            IN  /\ blk_msgs' = bm
                /\ blk_n' = bn
                /\ IF n # c2.expected_size \/ idx >= n
                   THEN /\ result' = "InvalidValue"
                        /\ emitted' = << >>
                        /\ collect' = c2
                        /\ slot_ctx' = sc2
                        /\ blk_out' = bo
                        /\ UNCHANGED prov
                   ELSE LET c3 == AfterStore(c2, idx, m.value)
                            sc3 == [sc2 EXCEPT ![idx + 1] = Some(m.ctx)]
                        IN  /\ result' = "ok"
                            /\ IF c3.received_count = c3.expected_size
                               THEN LET out == Msg(pop_map_frame(m.ctx),
                                                   Arr(drain_buffer_to_vector(c3.input_values)))
                                    IN  /\ emitted' = << out >>
                                        /\ blk_out' = Append(bo, out)
                                        /\ prov' = [k \in 1..Len(sc3) |-> sc3[k][1]]
                                        /\ collect' = reset_state(c3)
                                        /\ slot_ctx' = << >>
                               ELSE /\ emitted' = << >>
                                    /\ blk_out' = bo
                                    /\ collect' = c3
                                    /\ slot_ctx' = sc3
                                    /\ UNCHANGED prov

\* the host delivers one in-flight message to Collect
Deliver(m) ==
    /\ BagIn(m, chan)
    /\ chan' = chan (-) SetToBag({m})
    /\ CollectProcess(m)
    /\ UNCHANGED <<mapped, map_in, map_out>>
    /\ UNCHANGED <<joinVars, utilVars>>

\* framed and unframed values that reach Collect from any upstream agent: two
\* context ids, no frame or one frame, the frames of a two-element and of a
\* one-element fan-out and a frame whose index is not below its total
ArrivalFrames == {<<0, 2>>, <<1, 2>>, <<2, 2>>, <<0, 1>>}

CollectArrivals ==
    {Msg(Ctx(id, fs), Item("v", k)) :
        id \in 1..2, fs \in {<< >>} \cup {<<f>> : f \in ArrivalFrames}, k \in 1..2}

\* the host calls CollectAgent::process with an arrival
Receive(m) ==
    /\ blk_n < MaxBlock
    /\ CollectProcess(m)
    /\ UNCHANGED <<chan, mapped, map_in, map_out>>
    /\ UNCHANGED <<joinVars, utilVars>>

-----------------------------------------------------------------------------
\* ZipToArray, ZipToObject, Sync: configuration

Kinds == {"ZipToArray", "ZipToObject", "Sync"}

PortNames == <<"in1", "in2", "in3">>
OutNames == <<"out1", "out2", "out3">>
KeyConfigNames == <<"k1", "k2", "k3">>
ConfigNames ==
    {"n", "use_ctx", "ttl_sec", "ttl_seconds", "capacity"} \cup Range(KeyConfigNames)

\* defaults of the declared configs
DEFAULT_N == 2
DEFAULT_TTL_SEC == 60
DEFAULT_CAPACITY == 1000

\* AgentConfigs::get_integer_or, get_string_or
get_or(cfg, name, default) == IF cfg[name] = None THEN default ELSE cfg[name][1]

\* the option update_spec reads the entry lifetime from
TtlOption(kind) == IF kind = "ZipToObject" THEN "ttl_seconds" ELSE "ttl_sec"

\* mutant: the port count is taken as configured
update_spec_NoClamp(kind, cfg) ==
    LET n == get_or(cfg, "n", DEFAULT_N)
    IN  [n |-> n,
         use_ctx |-> get_or(cfg, "use_ctx", FALSE),
         ttl_sec |-> get_or(cfg, TtlOption(kind), DEFAULT_TTL_SEC),
         capacity |-> get_or(cfg, "capacity", DEFAULT_CAPACITY),
         keys |-> IF kind = "ZipToObject"
                  THEN [i \in 1..n |-> get_or(cfg, KeyConfigNames[i], PortNames[i])]
                  ELSE << >>,
         output_pins |-> IF kind = "Sync" THEN [i \in 1..n |-> OutNames[i]] ELSE << >>]

\* update_spec: the values read from the configs.  n is configured as 0 or more
\* here; the cast of a negative n is modelled by port_count below
update_spec(kind, cfg) ==
    LET n0 == get_or(cfg, "n", DEFAULT_N)
        n == IF n0 < 1 THEN 1 ELSE n0
    IN  [n |-> n,
         use_ctx |-> get_or(cfg, "use_ctx", FALSE),
         ttl_sec |-> get_or(cfg, TtlOption(kind), DEFAULT_TTL_SEC),
         capacity |-> get_or(cfg, "capacity", DEFAULT_CAPACITY),
         keys |-> IF kind = "ZipToObject"
                  THEN [i \in 1..n |-> get_or(cfg, KeyConfigNames[i], PortNames[i])]
                  ELSE << >>,
         output_pins |-> IF kind = "Sync" THEN [i \in 1..n |-> OutNames[i]] ELSE << >>]

\* update_spec: the configs it leaves in the agent spec. ZipToObject rebuilds
\* them from n and the field names alone.
spec_configs(kind, cfg) ==
    IF kind = "ZipToObject"
    THEN LET u == update_spec(kind, cfg)
         IN  [name \in ConfigNames |->
                 IF name = "n" THEN Some(u.n)
                 ELSE IF \E i \in 1..u.n : KeyConfigNames[i] = name
                      THEN Some(u.keys[CHOOSE i \in 1..u.n : KeyConfigNames[i] = name])
                      ELSE None]
    ELSE cfg

\* AsAgent::new
new(kind, cfg) ==
    LET u == update_spec(kind, cfg)
    IN  [kind |-> kind,
         n |-> u.n,
         use_ctx |-> u.use_ctx,
         ttl_sec |-> u.ttl_sec,
         capacity |-> u.capacity,
         keys |-> u.keys,
         output_pins |-> u.output_pins,
         queues |-> [i \in 1..u.n |-> << >>],
         ctx_buffers |-> << >>]

-----------------------------------------------------------------------------
\* ctx_buffers: Cache<String, Pending>, built with max_capacity(capacity) and
\* time_to_live(ttl_sec): "oldest entries are evicted on overflow", "entries
\* expire X seconds after write". The cache is the sequence of its entries
\* [key, entry, at] from the oldest write to the newest.

CacheKeys(cache) == {cache[k].key : k \in DOMAIN cache}

CacheWithout(cache, keys) == SelectSeq(cache, LAMBDA e : e.key \notin keys)

cache_get(cache, key) ==
    IF key \in CacheKeys(cache)
    THEN Some(cache[CHOOSE k \in DOMAIN cache : cache[k].key = key].entry)
    ELSE None

\* mutant: invalidate leaves the entry in the cache
cache_invalidate_Keep(cache, key) == cache

cache_invalidate(cache, key) == CacheWithout(cache, {key})

\* mutant: a cache built without max_capacity
cache_insert_Unbounded(cache, key, entry, t, capacity) ==
    Append(CacheWithout(cache, {key}), [key |-> key, entry |-> entry, at |-> t])

cache_insert(cache, key, entry, t, capacity) ==
    LET c == Append(CacheWithout(cache, {key}), [key |-> key, entry |-> entry, at |-> t])
    IN  IF Len(c) > capacity THEN SubSeq(c, Len(c) - capacity + 1, Len(c)) ELSE c

\* the entries that have lived ttl seconds at time t
Expired(cache, t, ttl) == {cache[k].key : k \in {i \in DOMAIN cache : t - cache[i].at >= ttl}}

\* mutant: a cache built without time_to_live
cache_expire_Never(cache, t, ttl) == cache

\* the cache at time t, built with time_to_live(ttl)
cache_expire(cache, t, ttl) == CacheWithout(cache, Expired(cache, t, ttl))

\* the values an entry holds
HeldBy(entry) == {entry.values[i][1] : i \in {k \in DOMAIN entry.values : entry.values[k] # None}}

HeldByKeys(cache, keys) ==
    UNION {HeldBy(cache[k].entry) : k \in {i \in DOMAIN cache : cache[i].key \in keys}}

-----------------------------------------------------------------------------
\* ZipToArray, ZipToObject, Sync: process

\* a string is the sequence of its characters
Digits == <<"0", "1", "2", "3", "4", "5", "6", "7", "8", "9">>
IsDigit(c) == \E d \in DOMAIN Digits : Digits[d] = c
DigitValue(c) == (CHOOSE d \in DOMAIN Digits : Digits[d] = c) - 1

\* format!("in{}", i), for i < 10
InPin(i) == <<"i", "n", Digits[i + 1]>>

\* str::strip_prefix
strip_prefix(s, prefix) ==
    IF Len(s) >= Len(prefix) /\ SubSeq(s, 1, Len(prefix)) = prefix
    THEN Some(SubSeq(s, Len(prefix) + 1, Len(s)))
    ELSE None

RECURSIVE DecimalValue(_)
DecimalValue(ds) ==
    IF ds = << >> THEN 0
    ELSE 10 * DecimalValue(SubSeq(ds, 1, Len(ds) - 1)) + DigitValue(ds[Len(ds)])

\* str::parse::<usize>: an optional "+" and then one or more decimal digits
\* (the strings of the model are too short to overflow)
parse_usize(s) ==
    LET ds == IF s # << >> /\ s[1] = "+" THEN Tail(s) ELSE s
    IN  IF ds # << >> /\ \A k \in DOMAIN ds : IsDigit(ds[k])
        THEN Some(DecimalValue(ds))
        ELSE None

\* process: parse pin number. The name after "in" is parsed as a number i,
\* and 1 <= i <= n selects port i - 1
parse_pin(pin, n) ==
    LET rest == strip_prefix(pin, <<"i", "n">>)
        i == IF rest = None THEN None ELSE parse_usize(rest[1])
    IN  IF i # None /\ i[1] >= 1 /\ i[1] <= n THEN Some(i[1] - 1) ELSE None

\* AgentContext::ctx_key: the run id and the map frames
ctx_key(ctx) == <<ctx.id, ctx.frames>>

PendingNew(n) == [values |-> [i \in 1..n |-> None], count |-> 0]

\* mutant: a filled slot keeps its first value
PendingUpdated_FirstWins(j, key, idx, value) ==
    LET found == cache_get(j.ctx_buffers, key)
        entry == IF found = None THEN PendingNew(j.n) ELSE found[1]
    IN  [entry EXCEPT !.count = IF entry.values[idx + 1] = None THEN @ + 1 ELSE @,
                      !.values[idx + 1] = IF @ = None THEN Some(value) ELSE @]

\* the entry of ctx, or a new one, with value stored in slot idx
PendingUpdated(j, key, idx, value) ==
    LET found == cache_get(j.ctx_buffers, key)
        entry == IF found = None THEN PendingNew(j.n) ELSE found[1]
    IN  [entry EXCEPT !.count = IF entry.values[idx + 1] = None THEN @ + 1 ELSE @,
                      !.values[idx + 1] = Some(value)]

Unwrapped(values) == [i \in DOMAIN values |-> values[i][1]]

Obj(map) == [t |-> "obj", v |-> map]

Out(pin, ctx, value) == [pin |-> pin, ctx |-> ctx, value |-> value]

\* keys.iter().zip(values).collect::<HashMap>(): a repeated key keeps its last value
ZipKeys(keys, vs) ==
    [k \in Range(keys) |->
        vs[CHOOSE i \in DOMAIN keys : keys[i] = k /\ \A h \in DOMAIN keys : keys[h] = k => h <= i]]

ZipToArrayOutput(j, ctx, vs) == << Out("array", ctx, Arr(vs)) >>
ZipToObjectOutput(j, ctx, vs) == << Out("object", ctx, Obj(ZipKeys(j.keys, vs))) >>
SyncOutput(j, ctx, vs) == [i \in DOMAIN vs |-> Out(j.output_pins[i], ctx, vs[i])]

Step(j, out) == [join |-> j, out |-> out]

\* context mode of ZipToArrayAgent::process
ZipToArrayCtx(j, ctx, idx, value, t) ==
    LET entry == PendingUpdated(j, ctx_key(ctx), idx, value)
    IN  IF entry.count = j.n
        THEN Step([j EXCEPT !.ctx_buffers = cache_invalidate(@, ctx_key(ctx))],
                  ZipToArrayOutput(j, ctx, Unwrapped(entry.values)))
        ELSE Step(j, << >>)

\* mutant: the incomplete entry is not written back
ZipToObjectCtx_NoInsert(j, ctx, idx, value, t) ==
    LET entry == PendingUpdated(j, ctx_key(ctx), idx, value)
    IN  IF entry.count = j.n
        THEN Step([j EXCEPT !.ctx_buffers = cache_invalidate(@, ctx_key(ctx))],
                  ZipToObjectOutput(j, ctx, Unwrapped(entry.values)))
        ELSE Step(j, << >>)

\* context mode of ZipToObjectAgent::process
ZipToObjectCtx(j, ctx, idx, value, t) ==
    LET entry == PendingUpdated(j, ctx_key(ctx), idx, value)
    IN  IF entry.count = j.n
        THEN Step([j EXCEPT !.ctx_buffers = cache_invalidate(@, ctx_key(ctx))],
                  ZipToObjectOutput(j, ctx, Unwrapped(entry.values)))
        ELSE Step([j EXCEPT !.ctx_buffers =
                                cache_insert(@, ctx_key(ctx), entry, t, j.capacity)],
                  << >>)

\* context mode of SyncAgent::process
SyncCtx(j, ctx, idx, value, t) ==
    LET entry == PendingUpdated(j, ctx_key(ctx), idx, value)
    IN  IF entry.count = j.n
        THEN Step([j EXCEPT !.ctx_buffers = cache_invalidate(@, ctx_key(ctx))],
                  SyncOutput(j, ctx, Unwrapped(entry.values)))
        ELSE Step(j, << >>)

\* mutant: push_front
Pushed_Front(queues, idx, value) == [queues EXCEPT ![idx + 1] = <<value>> \o @]

\* queues[idx].push_back(value)
Pushed(queues, idx, value) == [queues EXCEPT ![idx + 1] = Append(@, value)]
AllReady(queues) == \A i \in DOMAIN queues : queues[i] # << >>
Heads(queues) == [i \in DOMAIN queues |-> Head(queues[i])]
\* mutant: the heads are read and left in the queues
Popped_Kept(queues) == queues

Popped(queues) == [i \in DOMAIN queues |-> Tail(queues[i])]

\* FIFO mode of ZipToArrayAgent::process
ZipToArrayFifo(j, ctx, idx, value) ==
    LET q == Pushed(j.queues, idx, value)
    IN  IF AllReady(q)
        THEN Step([j EXCEPT !.queues = Popped(q)], ZipToArrayOutput(j, ctx, Heads(q)))
        ELSE Step([j EXCEPT !.queues = q], << >>)

\* FIFO mode of ZipToObjectAgent::process
ZipToObjectFifo(j, ctx, idx, value) ==
    LET q == Pushed(j.queues, idx, value)
    IN  IF AllReady(q)
        THEN Step([j EXCEPT !.queues = Popped(q)], ZipToObjectOutput(j, ctx, Heads(q)))
        ELSE Step([j EXCEPT !.queues = q], << >>)

\* FIFO mode of SyncAgent::process
SyncFifo(j, ctx, idx, value) ==
    LET q == Pushed(j.queues, idx, value)
    IN  IF AllReady(q)
        THEN Step([j EXCEPT !.queues = Popped(q)], SyncOutput(j, ctx, Heads(q)))
        ELSE Step([j EXCEPT !.queues = q], << >>)

\* process of the three agents, after the pin was parsed
ProcessStep(j, ctx, idx, value, t) ==
    IF j.use_ctx
    THEN CASE j.kind = "ZipToArray" -> ZipToArrayCtx(j, ctx, idx, value, t)
           [] j.kind = "ZipToObject" -> ZipToObjectCtx(j, ctx, idx, value, t)
           [] j.kind = "Sync" -> SyncCtx(j, ctx, idx, value, t)
    ELSE CASE j.kind = "ZipToArray" -> ZipToArrayFifo(j, ctx, idx, value)
           [] j.kind = "ZipToObject" -> ZipToObjectFifo(j, ctx, idx, value)
           [] j.kind = "Sync" -> SyncFifo(j, ctx, idx, value)

\* mutant: the queues are kept
join_reset_state_KeepQueues(j) == [j EXCEPT !.ctx_buffers = << >>]

\* reset_state of the three agents
join_reset_state(j) ==
    [j EXCEPT !.queues = [i \in 1..j.n |-> << >>], !.ctx_buffers = << >>]

-----------------------------------------------------------------------------
\* ZipToArray, ZipToObject, Sync: the agent in its environment

\* contexts of the arriving values: two items of one mapped run
JoinCtxs == {Ctx(1, << <<0, 2>> >>), Ctx(1, << <<1, 2>> >>)}
JoinKeys == {ctx_key(c) : c \in JoinCtxs}
NoCtx == Ctx(0, << >>)

\* pin names tried on an agent with n ports: in1 .. in{n}; in{n+1} and
\* another agent's pin name, which are no ports; and another spelling of 1
Pins(n) ==
    {InPin(i) : i \in 1..(n + 1)}
        \cup {<<"v", "a", "l", "u", "e">>, <<"i", "n", "0", "1">>}

Call(op, ctx, pin, value) == [op |-> op, ctx |-> ctx, pin |-> pin, value |-> value]

\* history: what the agent held before a call
Before(j, was_lost, was_done) ==
    [keys |-> CacheKeys(j.ctx_buffers),
     pending |-> j.ctx_buffers # << >> \/ \E i \in DOMAIN j.queues : j.queues[i] # << >>,
     was_lost |-> was_lost,
     was_done |-> was_done,
     n |-> j.n]

\* the agent never inspects a value: the k-th value received on port i names both
Token(i, k) == Str(<<i, k>>)

\* history: the values the outputs of a call in context mode carry
JoinedValues(out) ==
    IF join.use_ctx
    THEN UNION {IF out[i].value.t = "arr" THEN Range(out[i].value.v)
                ELSE IF out[i].value.t = "obj"
                     THEN {out[i].value.v[k] : k \in DOMAIN out[i].value.v}
                     ELSE {out[i].value} : i \in DOMAIN out}
    ELSE {}

RECURSIVE SumTo(_, _)
SumTo(f, k) == IF k = 0 THEN 0 ELSE f[k] + SumTo(f, k - 1)
Total(f) == SumTo(f, Len(f))

NoneGot(n) == [k \in JoinKeys |-> [i \in 1..n |-> None]]

\* history: the entries that left the cache without being joined
Forget(g, keys, n) == [k \in JoinKeys |-> IF k \in keys THEN [i \in 1..n |-> None] ELSE g[k]]

JoinProcess(ctx, pin) ==
    \E idx \in {parse_pin(pin, join.n)} :
    LET port == IF idx = None THEN 0 ELSE idx[1] + 1
        value == IF idx = None THEN Unit ELSE Token(port, arrivals[port] + 1)
    IN
    /\ Total(arrivals) < MaxArrivals
    /\ joined_vals' = joined_vals \cup JoinedValues(jemitted)
    /\ jlast' = Call("process", ctx, port, value)
    /\ jpin' = pin
    /\ jprev' = Before(join, ctx_key(ctx) \in lost, ctx_key(ctx) \in done)
    /\ UNCHANGED <<configs, now, stop_mark, inputs, given, changes, cfg_mark>>
    /\ UNCHANGED <<collectVars, utilVars>>
    /\ IF idx = None
       THEN /\ jresult' = "InvalidValue"
            /\ jemitted' = << >>
            /\ jsame' = TRUE
            /\ UNCHANGED <<join, arrivals, got, expect, lost, evicted_vals, done, rcv, outs>>
       ELSE \E st \in {ProcessStep(join, ctx, idx[1], value, now)} :
            LET key == ctx_key(ctx)
                gone == (CacheKeys(join.ctx_buffers) \ CacheKeys(st.join.ctx_buffers)) \ {key}
                g1 == [got EXCEPT ![key][idx[1] + 1] = Some(value)]
                full == \A i \in 1..join.n : g1[key][i] # None
            IN  /\ jresult' = "ok"
                /\ join' = st.join
                /\ jsame' = (st.join = join)
                /\ jemitted' = st.out
                /\ arrivals' = [arrivals EXCEPT ![port] = @ + 1]
                /\ IF join.use_ctx
                   THEN /\ expect' = IF full THEN Some(Unwrapped(g1[key])) ELSE None
                        /\ got' = Forget(g1, gone \cup (IF full THEN {key} ELSE {}), join.n)
                        /\ lost' = lost \ {key}
                        /\ evicted_vals' = evicted_vals \cup HeldByKeys(join.ctx_buffers, gone)
                        /\ done' = IF st.out # << >> THEN done \cup {key} ELSE done \ {key}
                        /\ UNCHANGED <<rcv, outs>>
                   ELSE /\ rcv' = [rcv EXCEPT ![idx[1] + 1] = Append(@, value)]
                        /\ outs' = IF st.out = << >> THEN outs ELSE Append(outs, st.out)
                        /\ UNCHANGED <<got, expect, lost, evicted_vals, done>>

\* a second passes while the cache holds entries: those written ttl_sec
\* seconds ago expire. The age of an entry is all the agent depends on, and
\* with a lifetime beyond MaxTime no entry expires before the clock stops.
Tick ==
    LET gone == Expired(join.ctx_buffers, now + 1, join.ttl_sec)
    IN
    /\ now < MaxTime
    /\ now' = now + 1
    /\ join' = [join EXCEPT !.ctx_buffers = cache_expire(@, now + 1, join.ttl_sec)]
    /\ join.ctx_buffers # << >>
    /\ join.ttl_sec <= MaxTime
    /\ jlast' = Call("tick", NoCtx, 0, Unit)
    /\ jpin' = << >>
    /\ jsame' = (gone = {})
    /\ jprev' = Before(join, FALSE, FALSE)
    /\ joined_vals' = joined_vals \cup JoinedValues(jemitted)
    /\ UNCHANGED done
    /\ jemitted' = << >>
    /\ jresult' = "ok"
    /\ got' = Forget(got, gone, join.n)
    /\ lost' = lost \cup gone
    /\ evicted_vals' = evicted_vals \cup HeldByKeys(join.ctx_buffers, gone)
    /\ expect' = None
    /\ UNCHANGED <<configs, arrivals, rcv, outs, stop_mark, inputs, given, changes, cfg_mark>>
    /\ UNCHANGED <<collectVars, utilVars>>

\* AsAgent::stop
Stop ==
    /\ join' = join_reset_state(join)
    /\ jlast.op # "stop"
    /\ jlast' = Call("stop", NoCtx, 0, Unit)
    /\ jpin' = << >>
    /\ jsame' = (join_reset_state(join) = join)
    /\ jprev' = Before(join, FALSE, FALSE)
    /\ joined_vals' = joined_vals \cup JoinedValues(jemitted)
    /\ UNCHANGED done
    /\ jemitted' = << >>
    /\ jresult' = "ok"
    /\ got' = NoneGot(join.n)
    /\ lost' = {}
    /\ expect' = None
    /\ rcv' = [i \in 1..join.n |-> << >>]
    /\ outs' = << >>
    /\ stop_mark' = arrivals
    /\ UNCHANGED <<configs, now, arrivals, evicted_vals, inputs, given, changes, cfg_mark>>
    /\ UNCHANGED <<collectVars, utilVars>>

\* mutant: the queues and the cache are kept when n changes
configs_changed_KeepState(j, cfg) ==
    LET u == update_spec(j.kind, cfg)
    IN  [j EXCEPT !.n = u.n, !.use_ctx = u.use_ctx,
                  !.ttl_sec = u.ttl_sec, !.capacity = u.capacity,
                  !.keys = u.keys, !.output_pins = u.output_pins,
                  !.queues = [i \in 1..u.n |-> IF i <= j.n THEN j.queues[i] ELSE << >>]]

\* mutant: the queues are allocated before the new port count is assigned
configs_changed_ResetFirst(j, cfg) ==
    LET u == update_spec(j.kind, cfg)
        changed == \/ u.n # j.n
                   \/ u.use_ctx # j.use_ctx
                   \/ u.ttl_sec # j.ttl_sec
                   \/ u.capacity # j.capacity
                   \/ j.kind = "ZipToObject" /\ u.keys # j.keys
    IN  IF changed
        THEN [join_reset_state(j) EXCEPT !.n = u.n, !.use_ctx = u.use_ctx,
                                         !.ttl_sec = u.ttl_sec, !.capacity = u.capacity,
                                         !.keys = u.keys, !.output_pins = u.output_pins]
        ELSE j


\* the body of configs_changed: the fields that differ are replaced, and on
\* any difference the queues are emptied and the cache is rebuilt
configs_changed(j, cfg) ==
    LET u == update_spec(j.kind, cfg)
        changed == \/ u.n # j.n
                   \/ u.use_ctx # j.use_ctx
                   \/ u.ttl_sec # j.ttl_sec
                   \/ u.capacity # j.capacity
                   \/ j.kind = "ZipToObject" /\ u.keys # j.keys
    IN  IF changed
        THEN join_reset_state([j EXCEPT !.n = u.n, !.use_ctx = u.use_ctx,
                                        !.ttl_sec = u.ttl_sec, !.capacity = u.capacity,
                                        !.keys = u.keys, !.output_pins = u.output_pins])
        ELSE j

\* history: a per-port counter extended to n ports
Widened(f, n) ==
    [i \in 1..(IF n > Len(f) THEN n ELSE Len(f)) |-> IF i <= Len(f) THEN f[i] ELSE 0]

\* the host sets one option of the agent's configs, and configs_changed runs
ConfigsChanged(name, value) ==
    LET cfg == [configs EXCEPT ![name] = Some(value)] IN
    \E j \in {configs_changed(join, cfg)} :
    /\ changes < MaxChanges
    /\ changes' = changes + 1
    /\ given' = [given EXCEPT ![name] = Some(value)]
    /\ configs' = spec_configs(join.kind, cfg)
    /\ inputs' = [i \in 1..update_spec(join.kind, cfg).n |-> InPin(i)]
    /\ join' = j
    /\ jlast' = Call("configs_changed", NoCtx, 0, Unit)
    /\ jpin' = << >>
    /\ jsame' = (j = join)
    /\ jprev' = Before(join, FALSE, FALSE)
    /\ joined_vals' = joined_vals \cup JoinedValues(jemitted)
    /\ jemitted' = << >>
    /\ jresult' = "ok"
    /\ arrivals' = Widened(arrivals, j.n)
    /\ stop_mark' = Widened(stop_mark, j.n)
    /\ cfg_mark' = IF j.n # join.n THEN Widened(arrivals, j.n) ELSE Widened(cfg_mark, j.n)
    /\ IF j = join
       THEN UNCHANGED <<got, expect, lost, done, rcv, outs>>
       ELSE /\ got' = NoneGot(j.n)
            /\ expect' = None
            /\ lost' = {}
            /\ done' = {}
            /\ rcv' = [i \in 1..j.n |-> << >>]
            /\ outs' = << >>
    /\ UNCHANGED <<now, evicted_vals>>
    /\ UNCHANGED <<collectVars, utilVars>>

-----------------------------------------------------------------------------
\* get_nested_value and set_nested_value (src/src/data.rs). An object is
\* Obj(f) with f a function from its keys to its values.

MaxDepth == 2      \* nesting depth of the root values
MaxPath == 3       \* longest key path

NestedKeys == {"tags", "new_key"}

object_default == Obj(<< >>)
is_object(value) == value.t = "obj"

\* the root values: a string, and objects of up to MaxDepth levels
RECURSIVE NestedValues(_)
NestedValues(d) ==
    IF d = 0 THEN {Str("some_string")}
    ELSE {Str("some_string")}
            \cup {Obj(f) : f \in UNION {[D -> NestedValues(d - 1)] : D \in SUBSET NestedKeys}}

KeyPaths == UNION {[1..k -> NestedKeys] : k \in 0..MaxPath}

NewValues == {Str("value"), object_default}

\* get_nested_value: None when the value reached is not an object or lacks the key
RECURSIVE get_nested_value(_, _)
get_nested_value(value, keys) ==
    IF keys = << >> THEN Some(value)
    ELSE IF ~is_object(value) THEN None
    ELSE IF Head(keys) \notin DOMAIN value.v THEN None
    ELSE get_nested_value(value.v[Head(keys)], Tail(keys))

\* HashMap::insert
Inserted(map, key, value) ==
    [k \in DOMAIN map \cup {key} |-> IF k = key THEN value ELSE map[k]]

\* the value at current after the traversal from current along path and the
\* insertion of new_value under last_key: a position that is not an object is
\* overwritten with an empty object, a missing key gets an empty object
RECURSIVE SetFrom(_, _, _, _)
SetFrom(current, path, last_key, new_value) ==
    LET obj == IF is_object(current) THEN current.v ELSE object_default.v
    IN  IF path = << >>
        THEN Obj(Inserted(obj, last_key, new_value))
        ELSE LET child == IF Head(path) \in DOMAIN obj THEN obj[Head(path)]
                          ELSE object_default
             IN  Obj(Inserted(obj, Head(path),
                              SetFrom(child, Tail(path), last_key, new_value)))

\* mutant: a position that is not an object is left as it is
RECURSIVE SetFrom_Stop(_, _, _, _)
SetFrom_Stop(current, path, last_key, new_value) ==
    IF ~is_object(current) THEN current
    ELSE IF path = << >>
         THEN Obj(Inserted(current.v, last_key, new_value))
         ELSE LET child == IF Head(path) \in DOMAIN current.v THEN current.v[Head(path)]
                           ELSE object_default
              IN  Obj(Inserted(current.v, Head(path),
                               SetFrom_Stop(child, Tail(path), last_key, new_value)))

\* mutant of set_nested_value built on SetFrom_Stop
set_nested_value_Stop(root, keys, new_value) ==
    IF keys = << >> THEN root
    ELSE SetFrom_Stop(root, SubSeq(keys, 1, Len(keys) - 1), keys[Len(keys)], new_value)

\* set_nested_value: root after the call
set_nested_value(root, keys, new_value) ==
    IF keys = << >> THEN root
    ELSE SetFrom(root, SubSeq(keys, 1, Len(keys) - 1), keys[Len(keys)], new_value)

NestedIdle ==
    [op |-> "none", root |-> Unit, keys |-> << >>, value |-> Unit, after |-> Unit,
     found |-> None]

\* set_nested_value(&mut root, &keys, value)
SetNested ==
    /\ nested.op = "new"
    /\ nested' = [nested EXCEPT !.op = "set",
                                !.after = set_nested_value(nested.root, nested.keys,
                                                           nested.value)]
    /\ UNCHANGED <<collectVars, joinVars, butNested>>

\* get_nested_value(&root, &keys), before or after the call of set_nested_value
GetNested ==
    /\ nested.op \in {"new", "set"}
    /\ nested' = [nested EXCEPT !.op = IF @ = "new" THEN "get" ELSE "set_get",
                                !.found = get_nested_value(nested.after, nested.keys)]
    /\ UNCHANGED <<collectVars, joinVars, butNested>>

-----------------------------------------------------------------------------
\* StringLengthSplitAgent (src/src/string.rs). A string is the sequence of its
\* bytes; the byte <<c, k>> is the k-th byte of the c-th character, so that
\* every byte of a string is told from the others.

MaxStr == 13       \* longest input string, in characters
MaxSplit == 8      \* largest len and overlap configured

MaxChars == 3      \* longest input string with characters of several bytes, in characters

\* the widths in bytes of the characters of the input strings
CharWidths == {1, 2, 3}

\* the string whose c-th character takes ws[c] bytes
Utf8(ws) ==
    [j \in 1..SumTo(ws, Len(ws)) |->
        CHOOSE b \in {<<c, k>> : c \in 1..Len(ws), k \in CharWidths} :
            b[2] <= ws[b[1]] /\ SumTo(ws, b[1] - 1) + b[2] = j]

\* the strings of single-byte characters
SplitStrings == {Utf8(ws) : ws \in UNION {[1..l -> {1}] : l \in 0..MaxStr}}

\* the strings of up to MaxChars characters of any width
Utf8Strings == {Utf8(ws) : ws \in UNION {[1..l -> CharWidths] : l \in 0..MaxChars}}

\* the passes of the loop followed in one call: more than a string of MaxStr
\* bytes needs when every pass advances
MaxChunks == MaxStr + 1

\* str::is_char_boundary: the start, the end, and the first byte of a character
is_char_boundary(s, i) ==
    i = 0 \/ i = Len(s) \/ (i < Len(s) /\ s[i + 1][2] = 1)

\* s[start..].chars().next().map(|c| c.len_utf8()).unwrap_or(1)
FirstCharLen(s, start) ==
    IF start >= Len(s) THEN 1
    ELSE Cardinality({j \in DOMAIN s : s[j][1] = s[start + 1][1]})

\* end of the chunk that starts at start: at most n bytes, moved back to a
\* character boundary, and one whole character if that leaves nothing
ChunkEnd(s, start, n) ==
    LET limit == IF start + n < Len(s) THEN start + n ELSE Len(s)
        end == CHOOSE e \in 0..limit :
                   /\ is_char_boundary(s, e)
                   /\ \A f \in (e + 1)..limit : ~is_char_boundary(s, f)
    IN  IF end <= start THEN start + FirstCharLen(s, start) ELSE end

\* mutant: the next chunk starts where the previous one ended
NextStart_NoOverlap(s, end, overlap) == end

\* start of the next chunk: overlap bytes before end, moved forward to a
\* character boundary
NextStart(s, end, overlap) ==
    LET from == IF end >= overlap THEN end - overlap ELSE 0
    IN  CHOOSE b \in from..Len(s) :
            /\ b = Len(s) \/ is_char_boundary(s, b)
            /\ \A c \in from..(b - 1) : c < Len(s) /\ ~is_char_boundary(s, c)

SplitIdle ==
    [pc |-> "none", value |-> Unit, n |-> 0, overlap |-> 0, start |-> 0, out |-> << >>,
     result |-> "ok", emitted |-> << >>]

\* StringLengthSplitAgent::process, up to the loop: the configs and the input
\* are checked
SplitProcess ==
    /\ split.pc = "called"
    /\ split' =
         IF split.n <= 0 \/ split.overlap >= split.n
         THEN [split EXCEPT !.pc = "done", !.result = "InvalidConfig"]
         ELSE IF split.value.t # "str"
              THEN [split EXCEPT !.pc = "done", !.result = "InvalidValue"]
              ELSE [split EXCEPT !.pc = "loop", !.start = 0, !.out = << >>]
    /\ UNCHANGED <<collectVars, joinVars, butSplit>>

\* one pass of the loop of process, and the output that follows the loop
SplitLoop ==
    LET s == split.value.v[1]
        end == ChunkEnd(s, split.start, split.n)
        out == Append(split.out, Str(SubSeq(s, split.start + 1, end)))
    IN
    /\ split.pc = "loop"
    /\ Len(split.out) < MaxChunks
    /\ split' =
         IF split.start < Len(s)
         THEN IF end = Len(s)
              THEN [split EXCEPT !.pc = "done", !.out = out,
                                 !.emitted = << Out("strings", NoCtx, Arr(out)) >>]
              ELSE [split EXCEPT !.out = out, !.start = NextStart(s, end, split.overlap)]
         ELSE [split EXCEPT !.pc = "done",
                            !.emitted = << Out("strings", NoCtx, Arr(split.out)) >>]
    /\ UNCHANGED <<collectVars, joinVars, butSplit>>

-----------------------------------------------------------------------------
\* Boolean, Integer, Number, String, Text and Object Input (src/src/input.rs)

MaxValue == 2      \* the values configured are numbered 0 .. MaxValue, 0 the default

\* the kinds of the agents, named after their config and output pin
InputKinds == {"boolean", "integer", "number", "string", "text", "object"}

\* the k-th value of the type of the config of an agent
InputValue(kind, k) == [t |-> IF kind = "text" THEN "string" ELSE kind, v |-> <<k>>]

\* AgentStatus
AgentStatus == {"Init", "Start", "Stop"}

\* the value read from the configs: get(NAME), and for Number Input
\* AgentValue::number(get_number(NAME))
input_value(a) ==
    IF a.kind = "number" THEN [t |-> "number", v |-> <<a.configs.v[1]>>] ELSE a.configs

\* mutant: the value is output whatever the status
input_configs_changed_Always(a) == << Out(a.kind, NoCtx, input_value(a)) >>

\* configs_changed: the outputs
input_configs_changed(a) ==
    IF a.status = "Start" THEN << Out(a.kind, NoCtx, input_value(a)) >> ELSE << >>

\* process: the outputs
input_process(a, ctx) == << Out(a.kind, ctx, input_value(a)) >>

InputIdle ==
    [kind |-> "none", status |-> "Init", configs |-> Unit, emitted |-> << >>,
     last |-> Call("none", NoCtx, 0, Unit), configured |-> Unit]

\* the contexts of the triggers
TriggerCtxs == {Ctx(1, << >>), Ctx(2, << <<0, 1>> >>)}

\* the host starts the agent
InputStart ==
    /\ input.status # "Start"
    /\ input' = [input EXCEPT !.status = "Start", !.emitted = << >>,
                              !.last = Call("start", NoCtx, 0, Unit)]
    /\ UNCHANGED <<collectVars, joinVars, butInput>>

\* the host stops the agent
InputStop ==
    /\ input.status = "Start"
    /\ input' = [input EXCEPT !.status = "Stop", !.emitted = << >>,
                              !.last = Call("stop", NoCtx, 0, Unit)]
    /\ UNCHANGED <<collectVars, joinVars, butInput>>

\* the host sets the config of the agent, in whatever status, and
\* configs_changed runs
InputConfigsChanged(k) ==
    LET a == [input EXCEPT !.configs = InputValue(input.kind, k)]
    IN
    /\ input' = [a EXCEPT !.emitted = input_configs_changed(a),
                          !.last = Call("configs_changed", NoCtx, 0, InputValue(input.kind, k)),
                          !.configured = InputValue(input.kind, k)]
    /\ UNCHANGED <<collectVars, joinVars, butInput>>

\* a value arrives on the unit port: process
InputProcess(ctx) ==
    /\ input' = [input EXCEPT !.emitted = input_process(input, ctx),
                              !.last = Call("process", ctx, 0, Unit)]
    /\ UNCHANGED <<collectVars, joinVars, butInput>>

\* ---- port count of ZipToArray, ZipToObject, Sync and Sequence ----
\*
\* The option n is an i64 and the port count a usize.  A 64-bit word is kept as four
\* limbs of 16 bits, least significant first; i64 and usize share the words and differ
\* in how a word is compared.

MaxPorts == 3     \* largest magnitude of the small values configured for n
LIMB == 65536     \* 2^16: one limb of a 64-bit word
SIGN == 32768     \* 2^15: the sign bit of the most significant limb

Words == [1..4 -> 0..(LIMB - 1)]

\* the i64 of a small integer x, in two's complement
I64(x) ==
    LET hi == x \div LIMB IN
    <<x % LIMB, hi % LIMB, (hi \div LIMB) % LIMB, (hi \div LIMB) % LIMB>>

I64_MIN == <<0, 0, 0, SIGN>>
I64_MAX == <<LIMB - 1, LIMB - 1, LIMB - 1, SIGN - 1>>
UsizeOne == I64(1)

\* a < b for two usize
RECURSIVE usize_lt_from(_, _, _)
usize_lt_from(a, b, i) ==
    IF i = 0 THEN FALSE
    ELSE IF a[i] # b[i] THEN a[i] < b[i]
    ELSE usize_lt_from(a, b, i - 1)

usize_lt(a, b) == usize_lt_from(a, b, 4)

\* a < b for two i64
i64_lt(a, b) ==
    IF (a[4] >= SIGN) # (b[4] >= SIGN) THEN a[4] >= SIGN
    ELSE usize_lt(a, b)

\* x as usize, of an i64 x: the word is kept and read without its sign
as_usize(x) == x

\* let mut n = ... as usize; if n < 1 { n = 1; }
port_count(x) ==
    LET n == as_usize(x) IN
    IF usize_lt(n, UsizeOne) THEN UsizeOne ELSE n

\* the greatest number of String a Vec holds: isize::MAX / size_of::<String>(),
\* (2^63 - 1) \div 24 = 0x0555_5555_5555_5555
MaxVecStrings == <<21845, 21845, 21845, 1365>>

\* (1..=n).map(|i| format!(...)).collect(): the Vec is allocated for n elements at once
\*   and panics with "capacity overflow" beyond MaxVecStrings; a count of one limb is
\*   allocated, and above that the outcome depends on the memory of the machine
collect_pins(n) ==
    IF usize_lt(MaxVecStrings, n) THEN {"panic"}
    ELSE IF n[2] = 0 /\ n[3] = 0 /\ n[4] = 0 THEN {"ok"}
    ELSE {"ok", "abort"}

PortKinds == {"ZipToArray", "ZipToObject", "Sync", "Sequence"}

\* the values configured for n
PortConfigs == {I64(x) : x \in (-MaxPorts)..MaxPorts} \cup {I64(LIMB), I64_MIN, I64_MAX}

PortsIdle == [pc |-> "idle", kind |-> "ZipToArray", cfg |-> I64(DEFAULT_N),
              count |-> I64(DEFAULT_N), result |-> "ok", n |-> I64(DEFAULT_N)]

\* new: update_spec, then the agent is built with n ports
PortsNew(kind, x) ==
    /\ ports.pc = "idle"
    /\ \E r \in collect_pins(port_count(x)) :
        ports' = [pc |-> IF r = "ok" THEN "new" ELSE "failed", kind |-> kind, cfg |-> x,
                  count |-> port_count(x), result |-> r,
                  n |-> IF r = "ok" THEN port_count(x) ELSE ports.n]
    /\ UNCHANGED <<collectVars, joinVars, butPorts>>

\* configs_changed: update_spec, then self.n is set
PortsConfigsChanged(x) ==
    /\ ports.pc = "new"
    /\ \E r \in collect_pins(port_count(x)) :
        ports' = [ports EXCEPT !.pc = IF r = "ok" THEN "changed" ELSE "failed",
                               !.cfg = x, !.count = port_count(x), !.result = r,
                               !.n = IF r = "ok" THEN port_count(x) ELSE @]
    /\ UNCHANGED <<collectVars, joinVars, butPorts>>

\* ---- Zip2, Zip3, Zip4 (stream.rs) ----

MaxZipCtx == 2    \* context ids are 0..MaxZipCtx

\* Zip2, Zip3, Zip4: new_with_n(2 | 3 | 4, ...)
ZipNs == {2, 3, 4}

ZipCtxIds == 0..MaxZipCtx
ZipValues == {Str("x"), Str("y")}

\* key1 .. key4 as configured: all set, two of them equal, one not set
ZipKeyConfigs == {<<"a", "b", "c", "d">>, <<"a", "a", "c", "d">>, <<"a", "", "c", "d">>}

\* reset_ports_and_keys; the pin in{i} is written i
reset_ports_and_keys(n, key_configs) ==
    [n |-> n, in_ports |-> [i \in 1..n |-> i], keys |-> [i \in 1..n |-> key_configs[i]],
     input_value |-> [i \in 1..n |-> None], current_id |-> 0]

new_with_n(n, key_configs) == reset_ports_and_keys(n, key_configs)

\* configs_changed_impl
zip_configs_changed_impl(z, key_configs) == [z EXCEPT !.keys = [i \in 1..z.n |-> key_configs[i]]]

\* process_impl, lines 54-61: a key is not set
ZipKeyMissing(z) == \E i \in 1..z.n : z.keys[i] = ""

\* mutant: the slots of another context id are kept
ZipReset_Keep(z, ctx_id) == [z EXCEPT !.current_id = ctx_id]

\* process_impl, lines 64-70: reset input values if the context id changes
ZipReset(z, ctx_id) ==
    IF ctx_id # z.current_id
    THEN [z EXCEPT !.current_id = ctx_id, !.input_value = [i \in 1..z.n |-> None]]
    ELSE z

\* process_impl, lines 73-77: store the input value
ZipStored(z, pin, value) ==
    [z EXCEPT !.input_value =
        [i \in 1..z.n |-> IF pin = z.in_ports[i] THEN Some(value) ELSE @[i]]]

\* process_impl, line 80
ZipAllPresent(z) == \A i \in 1..z.n : z.input_value[i] # None

\* process_impl, lines 85-90: the map after the first i inserts
RECURSIVE ZipMap(_, _)
ZipMap(z, i) ==
    IF i = 0 THEN << >>
    ELSE Inserted(ZipMap(z, i - 1), z.keys[i], z.input_value[i][1])

\* process_impl, lines 86-90: every slot is taken
ZipTaken(z) == [z EXCEPT !.input_value = [i \in 1..z.n |-> None]]

\* process_impl: the agent after the call and what the call returns
\*   (Err, Ok(None) or Ok(Some(record)))
process_impl(z, ctx_id, pin, value) ==
    IF ZipKeyMissing(z) THEN [z |-> z, result |-> "err", out |-> None]
    ELSE LET s == ZipStored(ZipReset(z, ctx_id), pin, value) IN
         IF ~ZipAllPresent(s) THEN [z |-> s, result |-> "ok", out |-> None]
         ELSE [z |-> ZipTaken(s), result |-> "ok", out |-> Some(Obj(ZipMap(s, s.n)))]

\* history: the context id each stored slot was filled under, after the call
ZipSlotCtx(old, before, after, ctx_id, pin) ==
    [i \in 1..after.n |->
        IF after.input_value[i] = None THEN None
        ELSE IF pin = after.in_ports[i] THEN Some(ctx_id)
        ELSE old[i]]

\* history: the context ids of the values a call combines into its record
ZipFrom(old, z, ctx_id, pin) ==
    {(IF pin = z.in_ports[i] THEN ctx_id ELSE old[i][1]) : i \in 1..z.n}

ZipIdle == [agent |-> new_with_n(2, <<"a", "b", "c", "d">>), result |-> "ok",
            emitted |-> None, from |-> {}, slot_ctx |-> [i \in 1..2 |-> None],
            cleared |-> FALSE, last |-> Call("new", NoCtx, 0, Unit)]

\* process of Zip2Agent / Zip3Agent / Zip4Agent: process_impl, then the record is
\* output on the pin data under the context of the call
ZipProcess(ctx_id, pin, value) ==
    /\ \E r \in {process_impl(zip.agent, ctx_id, pin, value)} :
        zip' = [agent |-> r.z, result |-> r.result,
                emitted |-> IF r.out = None THEN None
                            ELSE Some(Out("data", Ctx(ctx_id, << >>), r.out[1])),
                from |-> IF r.out = None THEN {}
                         ELSE ZipFrom(zip.slot_ctx, zip.agent, ctx_id, pin),
                slot_ctx |-> IF r.result = "err" THEN zip.slot_ctx
                             ELSE ZipSlotCtx(zip.slot_ctx, zip.agent, r.z, ctx_id, pin),
                cleared |-> \/ zip.cleared
                            \/ /\ r.result = "ok"
                               /\ ctx_id # zip.agent.current_id
                               /\ \E i \in 1..zip.agent.n : zip.agent.input_value[i] # None,
                last |-> Call("process", Ctx(ctx_id, << >>), pin, value)]
    /\ UNCHANGED <<collectVars, joinVars, butZip>>

\* configs_changed of Zip2Agent / Zip3Agent / Zip4Agent
ZipConfigsChanged(key_configs) ==
    /\ zip' = [zip EXCEPT !.agent = zip_configs_changed_impl(@, key_configs),
                          !.result = "ok", !.emitted = None, !.from = {},
                          !.last = Call("configs_changed", NoCtx, 0, Unit)]
    /\ UNCHANGED <<collectVars, joinVars, butZip>>

\* ---- Throttle Time (time.rs) ----
\*
\* process, configs_changed and stop take &mut self and exclude one another; the timer
\* task runs on the runtime beside them and shares timer_handle and waiting_data, each
\* behind its own mutex.  A step of the model is what the code does while it holds a
\* lock.  Sleeps order nothing, so a task may wake at any time; the host accepts every
\* output.  A value is written as its arrival number.

MaxThrottle == 3   \* values arriving at the agent
MaxTimers == 2     \* timer tasks spawned

ThrottleMaxNumData == {-1, 0, 1, 2}

ThrottleIdle ==
    [timer_handle |-> None, waiting_data |-> << >>, max_num_data |-> 0,
     tasks |-> [t \in 1..MaxTimers |-> "unspawned"], spawned |-> 0,
     pc |-> "idle", arg |-> 0, arrivals |-> 0, emitted |-> << >>, dropped |-> {},
     stopped |-> FALSE, last |-> "new"]

\* mutant: the newest value is dropped
DropOldest_Newest(wd, k) == SubSeq(wd, 1, Len(wd) - k)

\* wd.drain(0..k), wd.remove(0): wd without its k oldest values
DropOldest(wd, k) == SubSeq(wd, k + 1, Len(wd))

\* process, line 531: is the timer running?
ThrottleProcess ==
    /\ throttle.pc = "idle"
    /\ throttle.arrivals < MaxThrottle
    /\ throttle.timer_handle # None \/ throttle.spawned < MaxTimers
    /\ throttle' = [throttle EXCEPT
            !.pc = IF throttle.timer_handle # None THEN "queue" ELSE "start",
            !.arrivals = @ + 1, !.arg = throttle.arrivals + 1]
    /\ UNCHANGED <<collectVars, joinVars, butThrottle>>

\* process, lines 533-546: the value is added to the waiting list
ThrottleQueue ==
    /\ throttle.pc = "queue"
    /\ \E wd \in {Append(throttle.waiting_data, throttle.arg)} :
       \E k \in {IF throttle.max_num_data > 0 /\ Len(wd) > throttle.max_num_data
                 THEN 1 ELSE 0} :
        throttle' = [throttle EXCEPT
            !.pc = "idle", !.last = "process",
            !.waiting_data = IF throttle.max_num_data = 0 THEN @ ELSE DropOldest(wd, k),
            !.dropped = IF throttle.max_num_data = 0 THEN @ \cup {throttle.arg}
                        ELSE @ \cup (Range(wd) \ Range(DropOldest(wd, k)))]
    /\ UNCHANGED <<collectVars, joinVars, butThrottle>>

\* start_timer, lines 425-453: the task is spawned and begins to sleep
ThrottleSpawn ==
    /\ throttle.pc = "start"
    /\ throttle' = [throttle EXCEPT
            !.pc = "store", !.spawned = @ + 1,
            !.tasks = [@ EXCEPT ![throttle.spawned + 1] = "sleep"]]
    /\ UNCHANGED <<collectVars, joinVars, butThrottle>>

\* start_timer, lines 456-458: store the timer handle
ThrottleStore ==
    /\ throttle.pc = "store"
    /\ throttle' = [throttle EXCEPT !.pc = "output",
                                    !.timer_handle = Some(throttle.spawned)]
    /\ UNCHANGED <<collectVars, joinVars, butThrottle>>

\* process, line 553: output the data
ThrottleOutput ==
    /\ throttle.pc = "output"
    /\ throttle' = [throttle EXCEPT !.pc = "idle", !.last = "process",
                                    !.emitted = Append(@, throttle.arg)]
    /\ UNCHANGED <<collectVars, joinVars, butThrottle>>

\* the timer task t after its sleep, lines 431-451, holding both locks
ThrottleTick(t) ==
    /\ throttle.tasks[t] = "sleep"
    /\ \E wd \in {throttle.waiting_data} :
        throttle' =
            IF throttle.timer_handle = None
            THEN [throttle EXCEPT !.tasks = [@ EXCEPT ![t] = "done"]]
            ELSE [throttle EXCEPT
                    !.waiting_data = IF Len(wd) > 0 THEN Tail(wd) ELSE wd,
                    !.emitted = IF Len(wd) > 0 THEN Append(@, Head(wd)) ELSE @,
                    !.timer_handle = IF Len(wd) <= 1 THEN None ELSE @,
                    !.tasks = [@ EXCEPT ![t] = IF Len(wd) <= 1 THEN "done" ELSE "sleep"]]
    /\ UNCHANGED <<collectVars, joinVars, butThrottle>>

\* stop: stop_timer; a task is aborted where it sleeps
ThrottleStop ==
    /\ throttle.pc = "idle"
    /\ throttle' = [throttle EXCEPT
            !.timer_handle = None, !.stopped = TRUE, !.last = "stop",
            !.tasks = IF throttle.timer_handle = None THEN @
                      ELSE [@ EXCEPT ![throttle.timer_handle[1]] =
                                IF @ = "sleep" THEN "aborted" ELSE @]]
    /\ UNCHANGED <<collectVars, joinVars, butThrottle>>

\* configs_changed with max_num_data configured as m
ThrottleConfigsChanged(m) ==
    /\ throttle.pc = "idle"
    /\ \E wd \in {throttle.waiting_data} :
       \E k \in {IF throttle.max_num_data # m /\ m >= 0 /\ Len(wd) > m
                 THEN Len(wd) - m ELSE 0} :
        throttle' = [throttle EXCEPT
            !.waiting_data = DropOldest(wd, k),
            !.dropped = @ \cup (Range(wd) \ Range(DropOldest(wd, k))),
            !.max_num_data = m, !.last = "configs_changed"]
    /\ UNCHANGED <<collectVars, joinVars, butThrottle>>

\* ---- Delay (time.rs) ----
\*
\* process takes &mut self: one call is in progress at a time.  A value is written as
\* its arrival number; the output of a call succeeds or returns an error.

MaxDelay == 4      \* values arriving at the agent

DelayMaxNumData == {0, 1, 2, 3}

DelayIdle == [num_waiting_data |-> 0, max_num_data |-> 0, pc |-> "idle", arg |-> 0,
              arrivals |-> 0, emitted |-> << >>, last |-> "new"]

\* process, lines 63-75: the value is dropped, or counted and admitted
DelayProcess ==
    /\ delay.pc = "idle"
    /\ delay.arrivals < MaxDelay
    /\ delay' =
          IF delay.num_waiting_data >= delay.max_num_data
          THEN [delay EXCEPT !.arrivals = @ + 1, !.arg = delay.arrivals + 1,
                             !.last = "dropped"]
          ELSE [delay EXCEPT !.arrivals = @ + 1, !.arg = delay.arrivals + 1,
                             !.num_waiting_data = @ + 1, !.pc = "sleep"]
    /\ UNCHANGED <<collectVars, joinVars, butDelay>>

\* process, line 77: the sleep ends
DelaySleep ==
    /\ delay.pc = "sleep"
    /\ delay' = [delay EXCEPT !.pc = "output"]
    /\ UNCHANGED <<collectVars, joinVars, butDelay>>

\* process, lines 79-84: the output succeeds and the value is counted out
DelayOutput ==
    /\ delay.pc = "output"
    /\ delay' = [delay EXCEPT !.pc = "idle", !.last = "ok",
                              !.emitted = Append(@, delay.arg),
                              !.num_waiting_data = @ - 1]
    /\ UNCHANGED <<collectVars, joinVars, butDelay>>

\* process, line 79: the output returns an error, and so does process
DelayOutputErr ==
    /\ delay.pc = "output"
    /\ delay' = [delay EXCEPT !.pc = "idle", !.last = "err"]
    /\ UNCHANGED <<collectVars, joinVars, butDelay>>

\* ---- Interval Timer (time.rs) ----
\*
\* start, stop and configs_changed take &mut self and exclude one another; the timer
\* task runs on the runtime beside them and shares timer_handle behind a mutex, which
\* it holds for its check only.  abort ends a task where it awaits: in its sleep.

MaxUnits == 2           \* unit outputs
MaxIntervalTimers == 2  \* timer tasks spawned

\* interval_ms of the intervals configured: "10s" (INTERVAL_DEFAULT) and "1s"
IntervalMs == {10000, 1000}

IntervalIdle ==
    [timer_handle |-> None, interval_ms |-> 10000, status |-> "Init",
     tasks |-> [t \in 1..MaxIntervalTimers |-> "unspawned"], aborted |-> {},
     spawned |-> 0, pc |-> "idle", emitted |-> 0, late |-> 0]

\* start_timer, lines 104-131: the task is spawned and begins to sleep
IntervalSpawned(a) ==
    [a EXCEPT !.spawned = @ + 1, !.tasks = [@ EXCEPT ![a.spawned + 1] = "sleep"],
              !.pc = "store"]

\* stop_timer: the handle is taken and its task aborted
stop_timer(a) ==
    IF a.timer_handle = None THEN a
    ELSE [a EXCEPT !.timer_handle = None,
                   !.aborted = @ \cup {a.timer_handle[1]},
                   !.tasks = [@ EXCEPT ![a.timer_handle[1]] =
                                 IF @ = "sleep" THEN "aborted" ELSE @]]

\* start: start_timer up to the spawn
IntervalStart ==
    /\ interval.pc = "idle"
    /\ interval.status # "Start"
    /\ interval.spawned < MaxIntervalTimers
    /\ interval' = [IntervalSpawned(interval) EXCEPT !.status = "Start"]
    /\ UNCHANGED <<collectVars, joinVars, butInterval>>

\* start_timer, lines 134-136: store the timer handle
IntervalStore ==
    /\ interval.pc = "store"
    /\ interval' = [interval EXCEPT !.pc = "idle",
                                    !.timer_handle = Some(interval.spawned)]
    /\ UNCHANGED <<collectVars, joinVars, butInterval>>

\* stop: stop_timer
IntervalStop ==
    /\ interval.pc = "idle"
    /\ interval.status = "Start"
    /\ interval' = [stop_timer(interval) EXCEPT !.status = "Stop"]
    /\ UNCHANGED <<collectVars, joinVars, butInterval>>

\* configs_changed with the interval configured as ms: a started agent stops its
\* timer and starts one again, up to the spawn
IntervalConfigsChanged(ms) ==
    /\ interval.pc = "idle"
    /\ interval.status = "Start" /\ ms # interval.interval_ms
          => interval.spawned < MaxIntervalTimers
    /\ interval' =
          IF ms = interval.interval_ms THEN interval
          ELSE IF interval.status = "Start"
               THEN [IntervalSpawned(stop_timer(interval)) EXCEPT !.interval_ms = ms]
               ELSE [interval EXCEPT !.interval_ms = ms]
    /\ UNCHANGED <<collectVars, joinVars, butInterval>>

\* the timer task t after its sleep, lines 115-119: check if we've been stopped
IntervalWake(t) ==
    /\ interval.tasks[t] = "sleep"
    /\ interval.emitted < MaxUnits
    /\ interval' = [interval EXCEPT !.tasks = [@ EXCEPT ![t] =
                        IF interval.timer_handle = None THEN "done" ELSE "checked"]]
    /\ UNCHANGED <<collectVars, joinVars, butInterval>>

\* the timer task t, lines 122-129: the unit output; the task then sleeps again,
\* where an abort called meanwhile ends it
IntervalSend(t) ==
    /\ interval.tasks[t] = "checked"
    /\ interval' = [interval EXCEPT
            !.emitted = @ + 1,
            !.late = IF interval.status = "Stop" THEN @ + 1 ELSE @,
            !.tasks = [@ EXCEPT ![t] = IF t \in interval.aborted THEN "aborted"
                                        ELSE "sleep"]]
    /\ UNCHANGED <<collectVars, joinVars, butInterval>>

\* the utilities are not called
UtilIdle == nested = NestedIdle /\ split = SplitIdle /\ input = InputIdle /\ ports = PortsIdle /\ zip = ZipIdle /\ throttle = ThrottleIdle /\ delay = DelayIdle /\ interval = IntervalIdle

\* the utilities other than one of them are not called
IdleButNested == split = SplitIdle /\ input = InputIdle /\ ports = PortsIdle /\ zip = ZipIdle /\ throttle = ThrottleIdle /\ delay = DelayIdle /\ interval = IntervalIdle
IdleButSplit == nested = NestedIdle /\ input = InputIdle /\ ports = PortsIdle /\ zip = ZipIdle /\ throttle = ThrottleIdle /\ delay = DelayIdle /\ interval = IntervalIdle
IdleButInput == nested = NestedIdle /\ split = SplitIdle /\ ports = PortsIdle /\ zip = ZipIdle /\ throttle = ThrottleIdle /\ delay = DelayIdle /\ interval = IntervalIdle
IdleButPorts == nested = NestedIdle /\ split = SplitIdle /\ input = InputIdle /\ zip = ZipIdle /\ throttle = ThrottleIdle /\ delay = DelayIdle /\ interval = IntervalIdle
IdleButZip == nested = NestedIdle /\ split = SplitIdle /\ input = InputIdle /\ ports = PortsIdle /\ throttle = ThrottleIdle /\ delay = DelayIdle /\ interval = IntervalIdle
IdleButThrottle == nested = NestedIdle /\ split = SplitIdle /\ input = InputIdle /\ ports = PortsIdle /\ zip = ZipIdle /\ delay = DelayIdle /\ interval = IntervalIdle
IdleButDelay == nested = NestedIdle /\ split = SplitIdle /\ input = InputIdle /\ ports = PortsIdle /\ zip = ZipIdle /\ throttle = ThrottleIdle /\ interval = IntervalIdle
IdleButInterval == nested = NestedIdle /\ split = SplitIdle /\ input = InputIdle /\ ports = PortsIdle /\ zip = ZipIdle /\ throttle = ThrottleIdle /\ delay = DelayIdle

-----------------------------------------------------------------------------
\* Initial states

CollectInit ==
    /\ collect = CollectIdle
    /\ chan = EmptyBag
    /\ emitted = << >>
    /\ result = "ok"
    /\ mapped = {}
    /\ map_in = None
    /\ map_out = << >>
    /\ last_msg = None
    /\ prev = CollectIdle
    /\ slot_ctx = << >>
    /\ prov = << >>
    /\ blk_msgs = {}
    /\ blk_n = 0
    /\ blk_out = << >>

NoConfigs == [name \in ConfigNames |-> None]

\* the configurations the join agents are constructed with
JoinConfigs ==
    {[NoConfigs EXCEPT !["n"] = n] : n \in {None, Some(1), Some(3)}}
    \cup
    {[NoConfigs EXCEPT !["use_ctx"] = Some(FALSE)]}
    \cup
    {[NoConfigs EXCEPT !["n"] = n, !["use_ctx"] = Some(TRUE)] :
        n \in {None, Some(1), Some(3)}}
    \cup
    {[NoConfigs EXCEPT !["use_ctx"] = Some(TRUE), !["ttl_sec"] = t,
                       !["ttl_seconds"] = t, !["capacity"] = c] :
        t \in {None, Some(2)}, c \in {None, Some(1)}}

JoinStart(kind, cfg) ==
    /\ configs = spec_configs(kind, cfg)
    /\ join = new(kind, cfg)
    /\ now = 0
    /\ jemitted = << >>
    /\ jresult = "ok"
    /\ jlast = Call("new", NoCtx, 0, Unit)
    /\ jpin = << >>
    /\ jsame = TRUE
    /\ jprev = Before(new(kind, cfg), FALSE, FALSE)
    /\ done = {}
    /\ joined_vals = {}
    /\ arrivals = [i \in 1..new(kind, cfg).n |-> 0]
    /\ got = NoneGot(new(kind, cfg).n)
    /\ expect = None
    /\ lost = {}
    /\ evicted_vals = {}
    /\ rcv = [i \in 1..new(kind, cfg).n |-> << >>]
    /\ outs = << >>
    /\ stop_mark = [i \in 1..new(kind, cfg).n |-> 0]
    /\ inputs = [i \in 1..new(kind, cfg).n |-> InPin(i)]
    /\ given = cfg
    /\ changes = 0
    /\ cfg_mark = [i \in 1..new(kind, cfg).n |-> 0]

\* Map -> Collect pipeline; the join agent is constructed and left alone
Init == CollectInit /\ JoinStart("ZipToArray", NoConfigs) /\ UtilIdle

Next ==
    \/ \E ctx \in SourceCtxs : \E value \in MapInputs(ctx) : MapProcess(ctx, value)
    \/ \E m \in BagToSet(chan) : Deliver(m)

Spec == Init /\ [][Next]_vars

\* Collect alone, called with any of CollectArrivals in any order
NextCollect == \E m \in CollectArrivals : Receive(m)

SpecCollect == Init /\ [][NextCollect]_vars

\* a join agent of any kind, constructed with any of JoinConfigs; Map and
\* Collect are left alone
InitJoin ==
    CollectInit /\ UtilIdle /\ \E kind \in Kinds, cfg \in JoinConfigs : JoinStart(kind, cfg)

NextJoin ==
    \/ \E ctx \in JoinCtxs, pin \in Pins(join.n) : JoinProcess(ctx, pin)
    \/ Tick
    \/ Stop

SpecJoin == InitJoin /\ [][NextJoin]_vars

\* the configurations of the agents that are reconfigured: the defaults,
\* context mode, context mode with a lifetime and a capacity, and n = 0
ReconfiguredConfigs ==
    {NoConfigs,
     [NoConfigs EXCEPT !["use_ctx"] = Some(TRUE)],
     [NoConfigs EXCEPT !["use_ctx"] = Some(TRUE), !["ttl_sec"] = Some(2),
                       !["capacity"] = Some(1)],
     [NoConfigs EXCEPT !["n"] = Some(0)]}

InitConfig ==
    CollectInit /\ UtilIdle
        /\ \E kind \in Kinds, cfg \in ReconfiguredConfigs : JoinStart(kind, cfg)

\* values arrive on the declared ports under one context, and the host
\* changes the port count, the mode, the lifetime or a field name
NextConfig ==
    \/ \E pin \in Range(inputs) : JoinProcess(Ctx(1, << <<0, 2>> >>), pin)
    \/ \E n \in {0, 1, 3} : ConfigsChanged("n", n)
    \/ \E b \in BOOLEAN : ConfigsChanged("use_ctx", b)
    \/ ConfigsChanged("ttl_sec", 2)
    \/ ConfigsChanged("k2", "in1")

SpecConfig == InitConfig /\ [][NextConfig]_vars

\* the life of a join agent: constructed in FIFO or in context mode, it is
\* given values on any pin name, its port count is changed, and it is stopped
InitLife ==
    CollectInit /\ UtilIdle /\ \E kind \in Kinds, b \in BOOLEAN :
                      JoinStart(kind, [NoConfigs EXCEPT !["use_ctx"] = Some(b)])

NextLife ==
    \/ \E pin \in Pins(join.n) : JoinProcess(Ctx(1, << <<0, 2>> >>), pin)
    \/ \E n \in {0, 1, 3} : ConfigsChanged("n", n)
    \/ Stop

SpecLife == InitLife /\ [][NextLife]_vars

\* set_nested_value and get_nested_value called with any root, key path and value
InitNested ==
    /\ CollectInit /\ JoinStart("ZipToArray", NoConfigs)
    /\ \E root \in NestedValues(MaxDepth), keys \in KeyPaths, value \in NewValues :
          nested = [op |-> "new", root |-> root, keys |-> keys, value |-> value,
                    after |-> root, found |-> None]
    /\ IdleButNested

NextNested == SetNested \/ GetNested

SpecNested == InitNested /\ [][NextNested]_vars

\* String Length Split called with any string, or a value that is no string,
\* under any len and overlap
InitSplit ==
    /\ CollectInit /\ JoinStart("ZipToArray", NoConfigs)
    /\ IdleButSplit
    /\ \E value \in {Str(s) : s \in SplitStrings} \cup {Unit},
          n \in 0..MaxSplit, overlap \in 0..MaxSplit :
          split = [SplitIdle EXCEPT !.pc = "called", !.value = value, !.n = n,
                                    !.overlap = overlap]

NextSplit == SplitProcess \/ SplitLoop

SpecSplit == InitSplit /\ [][NextSplit]_vars

\* String Length Split called with any string of up to MaxChars characters of
\* one to three bytes, under any len and overlap
InitSplitUtf8 ==
    /\ CollectInit /\ JoinStart("ZipToArray", NoConfigs)
    /\ IdleButSplit
    /\ \E s \in Utf8Strings, n \in 0..MaxSplit, overlap \in 0..MaxSplit :
          split = [SplitIdle EXCEPT !.pc = "called", !.value = Str(s), !.n = n,
                                    !.overlap = overlap]

SpecSplitUtf8 == InitSplitUtf8 /\ [][NextSplit]_vars

\* an Input agent of any kind, constructed with the default value of its
\* config: it is started and stopped, its config is set and it is triggered
\* in any order
InitInput ==
    /\ CollectInit /\ JoinStart("ZipToArray", NoConfigs)
    /\ IdleButInput
    /\ \E kind \in InputKinds :
          input = [InputIdle EXCEPT !.kind = kind, !.configs = InputValue(kind, 0),
                                    !.last = Call("new", NoCtx, 0, Unit),
                                    !.configured = InputValue(kind, 0)]

NextInput ==
    \/ InputStart
    \/ InputStop
    \/ \E k \in 0..MaxValue : InputConfigsChanged(k)
    \/ \E ctx \in TriggerCtxs : InputProcess(ctx)

SpecInput == InitInput /\ [][NextInput]_vars

\* Port count: an agent of one of the four kinds is built with a configured n, and
\* n is configured once more.
InitPorts ==
    /\ CollectInit /\ JoinStart("ZipToArray", NoConfigs)
    /\ UtilIdle

NextPorts ==
    \/ \E kind \in PortKinds, x \in PortConfigs : PortsNew(kind, x)
    \/ \E x \in PortConfigs : PortsConfigsChanged(x)

SpecPorts == InitPorts /\ [][NextPorts]_vars

\* Zip2 / Zip3 / Zip4: an agent is built, values arrive on its pins (and on a pin it
\* does not have) under several context ids, and its keys are configured again.
InitZip ==
    /\ CollectInit /\ JoinStart("ZipToArray", NoConfigs)
    /\ IdleButZip
    /\ \E n \in ZipNs, key_configs \in ZipKeyConfigs :
          zip = [ZipIdle EXCEPT !.agent = new_with_n(n, key_configs),
                                !.slot_ctx = [i \in 1..n |-> None]]

NextZip ==
    \/ \E ctx_id \in ZipCtxIds, pin \in 1..(zip.agent.n + 1), value \in ZipValues :
          ZipProcess(ctx_id, pin, value)
    \/ \E key_configs \in ZipKeyConfigs : ZipConfigsChanged(key_configs)

SpecZip == InitZip /\ [][NextZip]_vars

\* Throttle Time: values arrive one call at a time, max_num_data is configured again,
\* the agent is stopped, and the timer tasks run beside the calls.
InitThrottle ==
    /\ CollectInit /\ JoinStart("ZipToArray", NoConfigs)
    /\ IdleButThrottle
    /\ \E m \in ThrottleMaxNumData : throttle = [ThrottleIdle EXCEPT !.max_num_data = m]

ThrottleCall ==
    \/ ThrottleQueue
    \/ ThrottleSpawn
    \/ ThrottleStore
    \/ ThrottleOutput

ThrottleTimer == \E t \in 1..MaxTimers : ThrottleTick(t)

NextThrottle ==
    \/ ThrottleProcess
    \/ ThrottleCall
    \/ ThrottleTimer
    \/ ThrottleStop
    \/ \E m \in ThrottleMaxNumData : ThrottleConfigsChanged(m)

SpecThrottle == InitThrottle /\ [][NextThrottle]_vars

\* the runtime runs a call in progress to its end and wakes a sleeping timer task
SpecThrottleLive ==
    SpecThrottle /\ WF_vars(ThrottleCall) /\ WF_vars(ThrottleTimer)

\* Delay: values arrive one call at a time.
InitDelay ==
    /\ CollectInit /\ JoinStart("ZipToArray", NoConfigs)
    /\ IdleButDelay
    /\ \E m \in DelayMaxNumData : delay = [DelayIdle EXCEPT !.max_num_data = m]

NextDelay ==
    \/ DelayProcess
    \/ DelaySleep
    \/ DelayOutput
    \/ DelayOutputErr

SpecDelay == InitDelay /\ [][NextDelay]_vars

\* Interval Timer: the host starts and stops the agent and configures its interval,
\* and the timer tasks run beside these calls.
InitInterval ==
    /\ CollectInit /\ JoinStart("ZipToArray", NoConfigs)
    /\ IdleButInterval
    /\ \E ms \in IntervalMs : interval = [IntervalIdle EXCEPT !.interval_ms = ms]

NextInterval ==
    \/ IntervalStart
    \/ IntervalStore
    \/ IntervalStop
    \/ \E ms \in IntervalMs : IntervalConfigsChanged(ms)
    \/ \E t \in 1..MaxIntervalTimers : IntervalWake(t)
    \/ \E t \in 1..MaxIntervalTimers : IntervalSend(t)

SpecInterval == InitInterval /\ [][NextInterval]_vars

-----------------------------------------------------------------------------
\* Properties of the Map -> Collect pipeline (specification Spec)

Framed(m) == current_map_frame(m.ctx) # None

\* the arrivals since Collect last initialised its buffer are exactly the items
\* Map emitted for inp, each once (in whatever order they were delivered)
AllItemsCollected(inp) ==
    /\ blk_n = Len(MapOutputs(inp.ctx, inp.value))
    /\ blk_msgs = Range(MapOutputs(inp.ctx, inp.value))

C6_Abandonment ==
    (/\ last_msg # None
     /\ Framed(last_msg[1])
     /\ prev.current_ctx_id # None
     /\ prev.current_ctx_id[1] # last_msg[1].ctx.id)
        => /\ emitted # << >>
           /\ emitted[1].value = Arr(drain_buffer_to_vector(prev.input_values))
           /\ Len(emitted[1].value.v) = prev.expected_size

\* the frames below the top one
OuterOf(ctx) == pop_map_frame(ctx).frames

\* C9: nested frames. Every array Collect emits is made of values whose
\* contexts carry the same outer frames, and it is emitted under the arriving
\* context with exactly its top frame popped.
C9_NestedFrames ==
    (last_msg # None /\ Framed(last_msg[1]) /\ emitted # << >>)
        => /\ \A i, j \in DOMAIN prov : OuterOf(prov[i]) = OuterOf(prov[j])
           /\ emitted[1].ctx = pop_map_frame(last_msg[1].ctx)

-----------------------------------------------------------------------------
\* Properties of Collect under arbitrary arrivals (specification SpecCollect)
\* and of Map (specification Spec)

\* the most recent arrival at Collect carried a frame
LastFramed == last_msg # None /\ last_msg[1].ctx.frames # << >>
LastIdx == last_msg[1].ctx.frames[Len(last_msg[1].ctx.frames)][1]
LastTotal == last_msg[1].ctx.frames[Len(last_msg[1].ctx.frames)][2]

\* Collect was collecting for the context id of the most recent arrival
InProgress ==
    prev.current_ctx_id = Some(last_msg[1].ctx.id) /\ prev.input_values # << >>

FilledSlots(buf) == Cardinality({k \in DOMAIN buf : buf[k] # None})

\* C13: Collect validation. A framed arrival whose total differs from the
\* expected_size of the collection in progress, or whose index is not below
\* its total, returns InvalidValue, emits nothing and leaves the fields of
\* Collect as they were, also when Collect was Idle.
C13_ValidationKeepsState ==
    (/\ LastFramed
     /\ \/ InProgress /\ LastTotal # prev.expected_size
        \/ LastIdx >= LastTotal)
        => /\ result = "InvalidValue"
           /\ emitted = << >>
           /\ collect = prev

\* C15: an arrival without a frame produces exactly one output, the value
\* itself under its context, in the same call, and leaves the fields of
\* Collect as they were, whatever its context id.
C15_Bypass ==
    (last_msg # None /\ last_msg[1].ctx.frames = << >>)
        => /\ result = "ok"
           /\ emitted = << last_msg[1] >>
           /\ collect = prev

\* an unframed value of context id 2 arrived while Collect held one of the
\* two items of context id 1
C15_Witness ==
    /\ last_msg # None /\ last_msg[1].ctx = Ctx(2, << >>)
    /\ emitted = << last_msg[1] >>
    /\ collect.current_ctx_id = Some(1)
    /\ collect.received_count = 1 /\ collect.expected_size = 2

\* C16: Map. A sequence of length n gives n outputs, the k-th (k = 0..n-1)
\* carrying element k under the input context with frame (k, n) pushed, in
\* index order; a non-sequence gives one output with frame (0, 1); the empty
\* sequence gives none.
C16_MapEmits ==
    map_in # None =>
        LET c == map_in[1].ctx
            v == map_in[1].value
        IN  IF v.t = "arr"
            THEN /\ Len(map_out) = Len(v.v)
                 /\ \A k \in 0..(Len(v.v) - 1) :
                       map_out[k + 1] =
                           [ctx |-> [id |-> c.id,
                                     frames |-> c.frames \o << <<k, Len(v.v)>> >>],
                            value |-> v.v[k + 1]]
            ELSE map_out = << [ctx |-> [id |-> c.id, frames |-> c.frames \o << <<0, 1>> >>],
                               value |-> v] >>

\* Map has processed a two-element array under a context that already
\* carries a frame, after it processed a non-sequence and an empty sequence
C16_Witness ==
    /\ map_in # None /\ map_in[1].value.t = "arr" /\ Len(map_in[1].value.v) = 2
    /\ map_in[1].ctx.frames # << >>
    /\ Len(map_out) = 2
    /\ \E a, b \in mapped : a.value.t = "str" /\ b.value = Arr(<< >>)

\* C17: Collect counting. received_count is the number of filled slots and the
\* buffer has expected_size slots in every state; an arrival for a filled slot
\* replaces the value and leaves received_count alone; an emitted array has
\* the frame's total as its length and no slot left empty.
C17_Counting ==
    /\ collect.received_count = FilledSlots(collect.input_values)
    /\ Len(collect.input_values) = collect.expected_size
    /\ (/\ LastFramed /\ result = "ok" /\ InProgress
        /\ prev.input_values[LastIdx + 1] # None)
          => /\ collect.received_count = prev.received_count
             /\ collect.input_values[LastIdx + 1] = Some(last_msg[1].value)
             /\ emitted = << >>
    /\ (LastFramed /\ emitted # << >>)
          => /\ Len(emitted) = 1
             /\ Len(emitted[1].value.v) = LastTotal
             /\ \A k \in 1..LastTotal : emitted[1].value.v[k] # Unit
             /\ FilledSlots(prev.input_values) >= LastTotal - 1

\* slot 0 was filled twice, with two values, before slot 1 completed the
\* array: the array holds the second value of slot 0
C17_Witness ==
    /\ LastFramed /\ emitted # << >> /\ blk_n = 3
    /\ emitted[1].value = Arr(<< Item("v", 2), Item("v", 1) >>)
    /\ Cardinality({m \in blk_msgs : m.ctx.frames = << <<0, 2>> >>}) = 2

-----------------------------------------------------------------------------
\* Properties of ZipToArray, ZipToObject and Sync (specification SpecJoin)

Processed == jlast.op = "process" /\ jresult = "ok"
CtxJoin(kind) == join.kind = kind /\ join.use_ctx /\ Processed

\* the record with the field of port i holding vs[i]
RecordOf(keys, vs) == [k \in Range(keys) |-> vs[CHOOSE i \in DOMAIN keys : keys[i] = k]]

\* C2: ZipToObject with use_ctx. An arrival emits exactly when it brings the
\* last of the N values of its context key (no eviction of the key's entry in
\* between), and then emits one record made of the values received under that
\* key on each port, whatever the order of arrival across ports and keys.
C2_ZipToObjectByKey ==
    CtxJoin("ZipToObject")
        => jemitted = IF expect = None THEN << >>
                      ELSE << Out("object", jlast.ctx, Obj(RecordOf(join.keys, expect[1]))) >>

\* port 1 received A then B, port 2 received B then A: the record of A pairs
\* the first value of port 1 with the second value of port 2
C2_Witness ==
    /\ CtxJoin("ZipToObject") /\ join.n = 2
    /\ jemitted = << Out("object", jlast.ctx,
                         Obj([k \in {"in1", "in2"} |->
                                 IF k = "in1" THEN Token(1, 1) ELSE Token(2, 2)])) >>

\* C3: ZipToArray with use_ctx and N >= 2. Once a value has arrived under key
\* K on each port, exactly one array [v1 .. vN] is emitted for K.
C3_ZipToArrayByKey ==
    (CtxJoin("ZipToArray") /\ join.n >= 2)
        => jemitted = IF expect = None THEN << >>
                      ELSE << Out("array", jlast.ctx, Arr(expect[1])) >>

\* C4: Sync with use_ctx and N >= 2. Once a value has arrived under key K on
\* each port, the values of K are emitted once, port i on out{i}, out1 first.
C4_SyncByKey ==
    (CtxJoin("Sync") /\ join.n >= 2)
        => jemitted = IF expect = None THEN << >>
                      ELSE [i \in 1..join.n |-> Out(OutNames[i], jlast.ctx, expect[1][i])]

\* pins and values of the outputs of one call
Shape(out) == [i \in DOMAIN out |-> <<out[i].pin, out[i].value>>]

\* the outputs that carry the tuple vs
TupleShape(j, vs) ==
    CASE j.kind = "ZipToArray" -> << <<"array", Arr(vs)>> >>
      [] j.kind = "ZipToObject" -> << <<"object", Obj(RecordOf(j.keys, vs))>> >>
      [] j.kind = "Sync" -> [i \in DOMAIN vs |-> <<OutNames[i], vs[i]>>]

MinLen(seqs) == CHOOSE m \in {Len(seqs[i]) : i \in DOMAIN seqs} :
                    \A i \in DOMAIN seqs : m <= Len(seqs[i])

\* C5: positional mode. The number of tuples emitted is the least number of
\* values any port has received, the j-th tuple is made of the j-th value
\* received on each port, and each queue holds, in arrival order, the values
\* of its port that are not yet emitted.
C5_Positional ==
    ~join.use_ctx
        => /\ Len(outs) = MinLen(rcv)
           /\ \A j \in DOMAIN outs :
                 Shape(outs[j]) = TupleShape(join, [i \in 1..join.n |-> rcv[i][j]])
           /\ \A i \in 1..join.n :
                 join.queues[i] = SubSeq(rcv[i], Len(outs) + 1, Len(rcv[i]))

\* port 2 received two values before port 1 received its first: one tuple is
\* out and the second value of port 2 is still queued
C5_Witness ==
    /\ ~join.use_ctx /\ join.n = 2 /\ Processed /\ jlast.pin = 1
    /\ Len(outs) = 1
    /\ join.queues = << << >>, << Token(2, 2) >> >>

\* the values carried by the outputs of one call
ValuesOf(out) ==
    UNION {IF out[i].value.t = "arr" THEN Range(out[i].value.v)
           ELSE IF out[i].value.t = "obj"
                THEN {out[i].value.v[k] : k \in DOMAIN out[i].value.v}
                ELSE {out[i].value} : i \in DOMAIN out}

\* C7: eviction. No value held by an entry that left the cache unfinished is
\* ever emitted, and the first arrival for a key whose entry expired starts a
\* new entry with that one slot filled and emits nothing (N >= 2).
C7_Eviction ==
    /\ ValuesOf(jemitted) \cap evicted_vals = {}
    /\ (Processed /\ join.use_ctx /\ join.n >= 2 /\ jprev.was_lost)
          => /\ jemitted = << >>
             /\ cache_get(join.ctx_buffers, ctx_key(jlast.ctx)) =
                    Some([values |-> [i \in 1..join.n |->
                                         IF i = jlast.pin THEN Some(jlast.value) ELSE None],
                          count |-> 1])

\* the value of port 1 expired with its entry, and the value of port 2 for the
\* same key arrived afterwards
C7_Witness ==
    /\ Processed /\ join.use_ctx /\ join.n = 2 /\ jprev.was_lost
    /\ jlast.pin = 2
    /\ Token(1, 1) \in evicted_vals

\* C8: capacity bound. The cache never holds more than capacity entries, and
\* an arrival that adds a key to a full cache evicts an entry.
C8_CapacityBound ==
    /\ Len(join.ctx_buffers) <= join.capacity
    /\ (/\ Processed /\ join.use_ctx /\ join.n >= 2
        /\ Cardinality(jprev.keys) = join.capacity
        /\ ctx_key(jlast.ctx) \notin jprev.keys)
          => /\ Cardinality(CacheKeys(join.ctx_buffers)) <= join.capacity
             /\ (ctx_key(jlast.ctx) \in CacheKeys(join.ctx_buffers)
                    => jprev.keys \ CacheKeys(join.ctx_buffers) # {})

\* a second key arrived at a cache of capacity 1 that held the first
C8_Witness ==
    /\ Processed /\ join.use_ctx /\ join.n = 2 /\ join.capacity = 1
    /\ Cardinality(jprev.keys) = 1
    /\ CacheKeys(join.ctx_buffers) = {ctx_key(jlast.ctx)}
    /\ ctx_key(jlast.ctx) \notin jprev.keys

\* C10: stop. After stop every queue is empty and the cache holds no entry,
\* and no output carries a value received before the most recent stop.
C10_Stop ==
    /\ jlast.op = "stop"
          => /\ Len(join.queues) = join.n
             /\ \A i \in 1..join.n : join.queues[i] = << >>
             /\ join.ctx_buffers = << >>
    /\ \A val \in ValuesOf(jemitted) : val.v[1][2] > stop_mark[val.v[1][1]]

\* a value of port 1 was pending at a stop, and a tuple is emitted afterwards
C10_Witness ==
    /\ join.n = 2 /\ Processed /\ jemitted # << >>
    /\ stop_mark = <<1, 0>>

\* C14: a value arriving on a pin name that is not one of in1 .. inN returns
\* InvalidValue, emits nothing and leaves the queues and the cache unchanged.
C14_InvalidPin ==
    (jlast.op = "process" /\ jpin \notin {InPin(i) : i \in 1..join.n})
        => /\ jresult = "InvalidValue"
           /\ jemitted = << >>
           /\ jsame

\* C19: no resurrection. In context mode no value is output twice, and an
\* arrival for a key whose join completed before is stored in a new entry:
\* with N = 1 it is output alone, with N >= 2 nothing is output and the
\* entry of the key holds the arriving value and nothing else.
C19_NoResurrection ==
    /\ join.use_ctx => ValuesOf(jemitted) \cap joined_vals = {}
    /\ (Processed /\ join.use_ctx /\ jprev.was_done)
          => IF join.n = 1
             THEN ValuesOf(jemitted) = {jlast.value}
             ELSE /\ jemitted = << >>
                  /\ cache_get(join.ctx_buffers, ctx_key(jlast.ctx)) =
                         Some([values |-> [i \in 1..join.n |->
                                              IF i = jlast.pin THEN Some(jlast.value) ELSE None],
                               count |-> 1])

\* ZipToObject with two ports output the record of a key, and the next value
\* for that key arrived on the port that completed the record
C19_Witness ==
    /\ Processed /\ join.use_ctx /\ join.n = 2 /\ jprev.was_done
    /\ jlast.value = Token(2, 2)
    /\ Token(2, 1) \in joined_vals

-----------------------------------------------------------------------------
\* Properties of the reconfigured agents (specification SpecConfig)

Configured == jlast.op \in {"new", "configs_changed"}

\* C11: reconfiguration. After a configs_changed that changes n, the declared
\* input ports are in1 .. inN for the new N, there are N queues, all empty,
\* and the cache is empty; and no output carries a value received before the
\* most recent change of n.
C11_Reconfigured ==
    /\ (jlast.op = "configs_changed" /\ join.n # jprev.n)
          => /\ inputs = [i \in 1..join.n |-> InPin(i)]
             /\ Len(join.queues) = join.n
             /\ \A i \in 1..join.n : join.queues[i] = << >>
             /\ join.ctx_buffers = << >>
    /\ \A val \in ValuesOf(jemitted) : val.v[1][2] > cfg_mark[val.v[1][1]]

\* a value was queued on port 1 of two, n became 3, and the first tuple after
\* the change is out
C11_Witness ==
    /\ join.n = 3 /\ cfg_mark[1] = 1 /\ Len(cfg_mark) = 3
    /\ Processed /\ jemitted # << >>

\* C12 (as stated): a configuration with n < 1 is rejected with InvalidConfig.
C12_RejectsBelowOne ==
    (Configured /\ given["n"] # None /\ given["n"][1] < 1)
        => jresult = "InvalidConfig"

\* C12 (amended): a configuration with n = 0 is accepted, at construction and
\* by configs_changed: the agent has one port, in1, and one queue; and the
\* port count is at least 1 in every state.
C12_ClampedToOne ==
    /\ join.n >= 1
    /\ (Configured /\ given["n"] = Some(0))
          => /\ jresult = "ok"
             /\ join.n = 1
             /\ inputs = << InPin(1) >>
             /\ Len(join.queues) = 1

\* an agent with two ports was reconfigured with n = 0
C12_Witness ==
    /\ jlast.op = "configs_changed" /\ given["n"] = Some(0)
    /\ jprev.n = 2 /\ join.n = 1

\* the values the most recent output was joined from, by port
JoinedFrom ==
    IF join.use_ctx THEN expect[1] ELSE [i \in 1..join.n |-> rcv[i][Len(outs)]]

\* C18: ZipToObject record contents. Every emitted record holds, for each
\* port i, the value joined from port i under the field name keys[i], which
\* is the configured k{i}, "in{i}" by default.
C18_RecordContents ==
    /\ join.kind = "ZipToObject"
          => \A i \in 1..join.n :
                 join.keys[i] = get_or(given, KeyConfigNames[i], PortNames[i])
    /\ (join.kind = "ZipToObject" /\ Processed /\ jemitted # << >>)
          => \A i \in 1..join.n :
                 /\ join.keys[i] \in DOMAIN jemitted[1].value.v
                 /\ jemitted[1].value.v[join.keys[i]] = JoinedFrom[i]

\* C20: cache configuration. After construction and after every
\* configs_changed the entry lifetime is the configured ttl_sec, 60 when
\* unset, and the capacity is the configured capacity, 1000 when unset.
C20_CacheConfig ==
    Configured
        => /\ join.ttl_sec = get_or(given, "ttl_sec", 60)
           /\ join.capacity = get_or(given, "capacity", 1000)

-----------------------------------------------------------------------------
\* the most recent arrival filled the last empty slot of the buffer: either
\* the buffer in progress for its context id lacked only its slot, or no
\* buffer was in progress for its context id and its frame has total 1
FillsLastSlot ==
    /\ LastFramed
    /\ LastIdx < LastTotal
    /\ IF InProgress
       THEN /\ LastTotal = prev.expected_size
            /\ prev.input_values[LastIdx + 1] = None
            /\ prev.received_count = prev.expected_size - 1
       ELSE LastTotal = 1

\* C25: Collect completion step. When the arrival that fills the last empty
\* slot is processed, Collect emits exactly one array of expected_size
\* elements, under the arriving context with exactly its top frame popped,
\* and afterwards is Idle: no context id, empty buffer, expected_size 0 and
\* received_count 0.
C25_Completion ==
    FillsLastSlot
        => /\ result = "ok"
           /\ Len(emitted) = 1
           /\ emitted[1].value.t = "arr"
           /\ Len(emitted[1].value.v) = LastTotal
           /\ emitted[1].value.v[LastIdx + 1] = last_msg[1].value
           /\ emitted[1].ctx.id = last_msg[1].ctx.id
           /\ emitted[1].ctx.frames =
                  SubSeq(last_msg[1].ctx.frames, 1, Len(last_msg[1].ctx.frames) - 1)
           /\ collect.current_ctx_id = None
           /\ collect.input_values = << >>
           /\ collect.expected_size = 0
           /\ collect.received_count = 0

\* the second item of a two-element fan-out, made under a context that
\* already carried a frame, completed the array: one frame is left
C25_Witness ==
    /\ FillsLastSlot /\ InProgress /\ LastTotal = 2
    /\ Len(last_msg[1].ctx.frames) = 2
    /\ Len(emitted) = 1 /\ Len(emitted[1].ctx.frames) = 1
    /\ collect = CollectIdle

\* C26: Collect never mixes context ids. The values of every emitted array
\* all arrived under the context id the array is emitted under, and the
\* values held in the buffer all arrived under the context id Collect holds.
C26_OneContextId ==
    /\ \A k \in DOMAIN slot_ctx :
          slot_ctx[k] # None => collect.current_ctx_id = Some(slot_ctx[k][1].id)
    /\ (LastFramed /\ emitted # << >>)
          => /\ Len(prov) = Len(emitted[1].value.v)
             /\ \A k \in DOMAIN prov : prov[k].id = emitted[1].ctx.id

\* an array was emitted for context id 2 by the arrival that made Collect
\* drop the one value it held, of two, for context id 1
C26_Witness ==
    /\ LastFramed /\ last_msg[1].ctx.id = 2
    /\ prev.current_ctx_id = Some(1)
    /\ prev.received_count = 1 /\ prev.expected_size = 2
    /\ Len(emitted) = 1 /\ emitted[1].ctx.id = 2
    /\ prov = << last_msg[1].ctx >>

-----------------------------------------------------------------------------
\* C27: pending entries of the context-correlated joins. In every state each
\* cached entry has exactly n slots, its count is the number of its filled
\* slots, and 1 <= count < n; each slot holds the value most recently
\* received on its port under the entry's key (a repeated arrival replaces
\* the value and is not counted); and the key of a join that has just been
\* emitted has no entry in the cache.
C27_PendingEntries ==
    /\ \A k \in DOMAIN join.ctx_buffers :
          LET e == join.ctx_buffers[k].entry
          IN  /\ Len(e.values) = join.n
              /\ e.count = FilledSlots(e.values)
              /\ 1 <= e.count /\ e.count < join.n
              /\ e.values = got[join.ctx_buffers[k].key]
    /\ (join.use_ctx /\ Processed /\ jemitted # << >>)
          => ctx_key(jlast.ctx) \notin CacheKeys(join.ctx_buffers)

\* port 1 of a three-port agent received two values under one key, nothing
\* else arrived: the entry of the key counts one value, the second
C27_Witness ==
    /\ join.use_ctx /\ Processed /\ join.n = 3
    /\ arrivals = <<2, 0, 0>>
    /\ jprev.keys = {ctx_key(jlast.ctx)}
    /\ Len(join.ctx_buffers) = 1
    /\ join.ctx_buffers[1].key = ctx_key(jlast.ctx)
    /\ join.ctx_buffers[1].entry =
           [values |-> << Some(Token(1, 2)), None, None >>, count |-> 1]

-----------------------------------------------------------------------------
\* C28: structure of ZipToArray, ZipToObject and Sync. After construction and
\* after every configs_changed, process and stop, there are n queues, the
\* declared input ports are in1 .. in{n}, each declared port is accepted by
\* process as the port of its position, and every pin name process accepts
\* addresses an existing queue and an existing slot of a new entry and of
\* every cached entry.
C28_Structure ==
    /\ join.n >= 1
    /\ Len(join.queues) = join.n
    /\ inputs = [i \in 1..join.n |-> InPin(i)]
    /\ \A i \in DOMAIN inputs : parse_pin(inputs[i], join.n) = Some(i - 1)
    /\ \A pin \in Pins(join.n) :
          LET idx == parse_pin(pin, join.n)
          IN  idx # None
                => /\ idx[1] + 1 \in DOMAIN join.queues
                   /\ idx[1] + 1 \in DOMAIN PendingNew(join.n).values
                   /\ \A k \in DOMAIN join.ctx_buffers :
                         idx[1] + 1 \in DOMAIN join.ctx_buffers[k].entry.values

\* the agent was stopped after its port count was changed from 2 to 3 and a
\* value arrived on the new port in3
C28_Witness ==
    /\ jlast.op = "stop"
    /\ changes = 1 /\ given["n"] = Some(3) /\ join.n = 3
    /\ Len(arrivals) = 3 /\ arrivals[3] > 0
    /\ Len(join.queues) = 3

-----------------------------------------------------------------------------
\* C29: positional mode. With use_ctx = false at least one of the n queues is
\* empty in every state, after every process call in particular, and one
\* process call emits at most one tuple: nothing, or one array, one record,
\* or one value on each of out1 .. out{n}.
C29_QueueEmpty ==
    ~join.use_ctx
        => /\ \E i \in DOMAIN join.queues : join.queues[i] = << >>
           /\ Processed
                => \/ jemitted = << >>
                   \/ /\ Len(jemitted) = IF join.kind = "Sync" THEN join.n ELSE 1
                      /\ \A i \in DOMAIN jemitted :
                            jemitted[i].pin =
                                CASE join.kind = "ZipToArray" -> "array"
                                  [] join.kind = "ZipToObject" -> "object"
                                  [] join.kind = "Sync" -> OutNames[i]

\* a three-port agent in positional mode emitted a tuple on the fourth
\* arrival, and port 1 still holds the second value it received
C29_Witness ==
    /\ ~join.use_ctx /\ Processed /\ join.n = 3
    /\ arrivals = <<2, 1, 1>>
    /\ jemitted # << >>
    /\ join.queues = << << Token(1, 2) >>, << >>, << >> >>

-----------------------------------------------------------------------------
\* C30: ZipToObject configuration frame. A configs_changed that follows a
\* change of a field name k{i} alone leaves use_ctx, the entry lifetime and
\* the capacity of the agent at the values they had before the call.
C30_KeyChangeFrame ==
    [][(/\ join.kind = "ZipToObject"
        /\ jlast'.op = "configs_changed"
        /\ changes' = changes + 1
        /\ \A name \in ConfigNames \ Range(KeyConfigNames) : given'[name] = given[name])
          => /\ join'.use_ctx = join.use_ctx
             /\ join'.ttl_sec = join.ttl_sec
             /\ join'.capacity = join.capacity]_vars

-----------------------------------------------------------------------------
\* Properties of set_nested_value and get_nested_value (specification SpecNested)

\* set_nested_value has been called
NestedSet == nested.op \in {"set", "set_get"}

\* the elements of root on the way to the last key: what get_nested_value
\* finds at the first i keys, i = 1 .. Len(keys) - 1
OnTheWay(root, keys) ==
    {get_nested_value(root, SubSeq(keys, 1, i)) : i \in 1..(Len(keys) - 1)}

\* C21: set_nested_value stops on a non-object path. When an element on the
\* way to the last key exists in root and is not an object, the call leaves
\* root as it was.
C21_StopsOnNonObject ==
    (/\ NestedSet
     /\ \E e \in OnTheWay(nested.root, nested.keys) : e # None /\ ~is_object(e[1]))
        => nested.after = nested.root

\* the two key paths part at some position
Diverge(p, q) == \E i \in 1..Len(p) : i <= Len(q) /\ p[i] # q[i]

\* get_nested_value cannot follow keys from value: at some position the value
\* reached is not an object or lacks the next key
Blocked(value, keys) ==
    \E i \in 1..Len(keys) :
        LET at == get_nested_value(value, SubSeq(keys, 1, i - 1))
        IN  \/ at = None
            \/ ~is_object(at[1])
            \/ keys[i] \notin DOMAIN at[1].v

-----------------------------------------------------------------------------
\* Properties of String Length Split (specification SpecSplit)

\* process has returned for a string of single-byte characters under a len
\* n > 0 and an overlap with 0 <= overlap < n
SplitDone ==
    /\ split.pc = "done"
    /\ split.value.t = "str"
    /\ \A j \in DOMAIN split.value.v[1] : split.value.v[1][j] = <<j, 1>>
    /\ split.n > 0 /\ 0 <= split.overlap /\ split.overlap < split.n

\* the chunks of the output, as byte sequences
Chunks == [k \in DOMAIN split.emitted[1].value.v |-> split.emitted[1].value.v[k].v[1]]

\* positions in the input of the first byte of a chunk (from 0) and of the
\* byte after its last one
ChunkFrom(chunk) == chunk[1][1] - 1
ChunkTo(chunk) == chunk[Len(chunk)][1]

\* the output is the list of chunks the claim describes for the input s
SplitAsClaimed(s, n, overlap) ==
    /\ split.result = "ok"
    /\ Len(split.emitted) = 1 /\ split.emitted[1].pin = "strings"
    /\ split.emitted[1].value.t = "arr"
    /\ Len(Chunks) >= 1
    /\ Chunks[1] = SubSeq(s, 1, IF n < Len(s) THEN n ELSE Len(s))
    /\ \A k \in DOMAIN Chunks :
          /\ Len(Chunks[k]) <= n
          /\ Len(Chunks[k]) >= 1
                => Chunks[k] = SubSeq(s, ChunkFrom(Chunks[k]) + 1, ChunkTo(Chunks[k]))
          /\ k > 1 => /\ Len(Chunks[k]) >= 1
                      /\ ChunkFrom(Chunks[k]) = ChunkTo(Chunks[k - 1]) - overlap
    /\ Len(s) > 0 => ChunkTo(Chunks[Len(Chunks)]) = Len(s)
    /\ Len(s) <= n => Chunks = << s >>

\* C23 (as stated): for every string s of single-byte characters, the empty
\* one included, the output is a list of chunks whose first is
\* s[0 .. min(n, |s|)], each of at most n bytes, each following one starting
\* overlap bytes before the end of the one before, the last ending at |s|;
\* a string no longer than n yields [s].
C23_SplitAll ==
    SplitDone => SplitAsClaimed(split.value.v[1], split.n, split.overlap)

\* C23 (amended): the same for every non-empty string s of single-byte
\* characters; the empty string yields the empty list.
C23_Split ==
    SplitDone
        => IF split.value.v[1] = << >>
           THEN split.result = "ok" /\ split.emitted = << Out("strings", NoCtx, Arr(<< >>)) >>
           ELSE SplitAsClaimed(split.value.v[1], split.n, split.overlap)

\* a string of 13 characters was split with len 8 and overlap 2 into its
\* bytes 0..8 and 6..13
C23_Witness ==
    /\ SplitDone /\ split.n = 8 /\ split.overlap = 2
    /\ Len(split.value.v[1]) = 13
    /\ Len(Chunks) = 2
    /\ Chunks[1] = SubSeq(split.value.v[1], 1, 8)
    /\ Chunks[2] = SubSeq(split.value.v[1], 7, 13)

-----------------------------------------------------------------------------
\* Properties of the Input agents (specification SpecInput)

\* C24: Input agents. While the agent is started, a config change emits the
\* value just configured and a trigger on the unit port emits the value
\* configured last, each exactly once and on the pin of the agent; a config
\* change made while the status is not Start emits nothing.
C24_InputEmits ==
    /\ (input.last.op = "configs_changed" /\ input.status = "Start")
          => /\ Len(input.emitted) = 1
             /\ input.emitted[1].pin = input.kind
             /\ input.emitted[1].value = input.last.value
    /\ (input.last.op = "process" /\ input.status = "Start")
          => /\ Len(input.emitted) = 1
             /\ input.emitted[1].pin = input.kind
             /\ input.emitted[1].value = input.configured
             /\ input.emitted[1].ctx = input.last.ctx
    /\ (input.last.op = "configs_changed" /\ input.status # "Start")
          => input.emitted = << >>

\* a started Number Input was triggered after its config had been set to
\* another value than the default, and emitted that value
C24_Witness ==
    /\ input.kind = "number" /\ input.status = "Start"
    /\ input.last.op = "process"
    /\ input.configured = InputValue("number", 2)
    /\ input.emitted = << Out("number", input.last.ctx, InputValue("number", 2)) >>

-----------------------------------------------------------------------------
\* C38: String Length Split termination. For every input string, characters
\* of several bytes included, and every len > 0 and 0 <= overlap < len, each
\* pass of the loop that is followed by another pass has moved the start
\* position forward.
C38_StartIncreases ==
    [][(/\ split.pc = "loop" /\ split'.pc = "loop"
        /\ split.n > 0 /\ 0 <= split.overlap /\ split.overlap < split.n)
          => split'.start > split.start]_vars

-----------------------------------------------------------------------------
\* Properties of the port count (specification SpecPorts)

\* max(1, n) of the configured i64 n, as the port count
Max1(x) == IF i64_lt(x, UsizeOne) THEN UsizeOne ELSE x

\* C31: for every 64-bit value configured for n, zero and the negative ones included,
\* the port count update_spec computes is max(1, n), it is at least 1 and the port
\* names and queues are allocated
C31_PortCount ==
    ports.pc # "idle" =>
        /\ ports.count = Max1(ports.cfg)
        /\ ~usize_lt(ports.count, UsizeOne)
        /\ ports.result = "ok"
        /\ ports.n = ports.count

-----------------------------------------------------------------------------
\* Properties of Zip2 / Zip3 / Zip4 (specification SpecZip)

\* C32: a record a Zip agent emits combines values received under one context id,
\* that of the call emitting it; every stored slot was filled under the current
\* context id (a value of another context id clears the slots before it is
\* stored); and after a record is emitted all n slots are empty
C32_OneContext ==
    /\ zip.emitted # None =>
          /\ zip.from = {zip.emitted[1].ctx.id}
          /\ \A i \in 1..zip.agent.n : zip.agent.input_value[i] = None
    /\ \A i \in 1..zip.agent.n :
          zip.agent.input_value[i] # None => zip.slot_ctx[i] = Some(zip.agent.current_id)

\* a record is emitted after values of another context id were cleared
C32_Witness == zip.emitted # None /\ zip.cleared

-----------------------------------------------------------------------------
\* Properties of Throttle Time (specifications SpecThrottle, SpecThrottleLive)

\* C33: whenever max_num_data >= 0 the waiting list holds at most max_num_data
\* values (so none with max_num_data = 0), after every process and configs_changed
\* call as in every other state, and the values dropped are older than those waiting
C33_QueueBound ==
    /\ throttle.max_num_data >= 0 =>
          Len(throttle.waiting_data) <= throttle.max_num_data
    /\ \A d \in throttle.dropped : \A i \in DOMAIN throttle.waiting_data :
          d < throttle.waiting_data[i]

\* a full waiting list after a value was dropped from it
C33_Witness ==
    /\ throttle.max_num_data > 0
    /\ Len(throttle.waiting_data) = throttle.max_num_data
    /\ throttle.dropped # {}
    /\ throttle.last \in {"process", "configs_changed"}

\* C34: a value in the waiting list is eventually emitted, unless it is dropped by
\* the max_num_data bound or the agent is stopped, whatever arrives later
C34_Emitted ==
    \A v \in 1..MaxThrottle :
        (v \in Range(throttle.waiting_data))
            ~> (\/ v \in Range(throttle.emitted)
                \/ v \in throttle.dropped
                \/ throttle.stopped)

\* C35: values are emitted in arrival order (the agent not being stopped)
C35_ArrivalOrder ==
    ~throttle.stopped =>
        \A i, j \in DOMAIN throttle.emitted :
            i < j => throttle.emitted[i] < throttle.emitted[j]

-----------------------------------------------------------------------------
\* Properties of Delay (specification SpecDelay)

\* C36: num_waiting_data is 0 whenever no process call is in progress, also after a
\* call whose output returned an error, and a value is dropped only while
\* num_waiting_data >= max_num_data
C36_InFlight ==
    delay.pc = "idle" =>
        /\ delay.num_waiting_data = 0
        /\ delay.last = "dropped" => delay.num_waiting_data >= delay.max_num_data

-----------------------------------------------------------------------------
\* Properties of Interval Timer (specification SpecInterval)

\* C37: once stop has returned, the agent emits no unit output until it is started
\* again
C37_QuietAfterStop == interval.late = 0
=============================================================================
